---- MODULE Spec2Model ----
(***************************************************************************)
(* Model of the Algorithm-Visualizer playback engine.                      *)
(*                                                                         *)
(* AnimationController (src/utils/animation_controller.py) is modelled as  *)
(* a state machine driven by its public methods and by the firing of the   *)
(* callbacks it registers with tkinter's root.after().                     *)
(*                                                                         *)
(* Speeds are floats in the source; they are kept here in tenths           *)
(* (SpeedScale), so 0.5 is 5 and 3.0 is 30.                                *)
(***************************************************************************)
EXTENDS Integers, Sequences, FiniteSets, TLC

(***************************************************************************)
(* Program constants (src/utils/constants.py).                             *)
(***************************************************************************)
SpeedScale == 10
ANIMATION_SPEED_DEFAULT == 10
ANIMATION_SPEED_MIN == 5
ANIMATION_SPEED_MAX == 30
FRAME_INTERVAL_MS == 16
INTERPOLATION_FRAMES == 8

(***************************************************************************)
(* Bounds of the model.                                                    *)
(***************************************************************************)
MaxSteps == 2          \* longest trace handed to set_steps
MaxPending == 2        \* most callbacks outstanding with root.after at once
MaxCompletions == 2    \* completions of one trace before play() is cut off
MaxLen == 4            \* longest array handed to get_steps
MaxVal == 3            \* largest value in such an array
MaxPlayLen == 3        \* longest array whose trace is played on the canvas
MaxPlayVal == 3        \* largest value in such an array
MaxReplayLen == 2      \* longest array whose run is paused and started again
MaxReplayVal == 2      \* largest value in such an array

(* Python's None for after_id; tkinter's identifiers are non-empty (truthy) *)
(* strings, modelled as the positive integers.                              *)
None == 0

(***************************************************************************)
(* Inputs.  Steps are (action, indices, description) tuples as the         *)
(* generators emit them; the pool is the sample trace of the test suite.   *)
(***************************************************************************)
StepPool ==
    << <<"compare", <<0, 1>>, "Comparing elements 0 and 1">>,
       <<"swap", <<0, 1>>, "Swapping elements 0 and 1">>,
       <<"mark_sorted", <<0>>, "Element 0 is sorted">> >>

TraceOf(n, k) == [i \in 1..n |-> StepPool[((i - 1 + k) % Len(StepPool)) + 1]]

\* every length up to MaxSteps, and a second one-step trace with other content
Traces == {TraceOf(n, 0) : n \in 0..MaxSteps} \cup {TraceOf(1, 1)}

\* -1.0, 2.0, 10.0
SpeedInputs == {-10, 20, 100}

VARIABLES
    is_playing,            \* self.is_playing
    is_paused,             \* self.is_paused
    current_step,          \* self.current_step
    animation_steps,       \* self.animation_steps
    speed,                 \* self.speed, in tenths
    after_id,              \* self.after_id
    interpolation_frame,   \* self.interpolation_frame
    on_step_change,        \* a step-change listener is registered
    on_completion,         \* a completion listener is registered
    pending,               \* identifiers of the callbacks outstanding with root.after
    interval,              \* the delay (ms) given to the latest root.after call
    lastOp,                \* history: the handler that ran last, with its argument
    pre,                   \* history: the mode that handler started from, and whether
                           \* it started inside a step after the first
    resumed,               \* history: play() resumed a pause inside a step since the reset
    emitted,               \* history: what that handler delivered to the callbacks,
                           \* or the exception it let escape
    events,                \* history: everything delivered since the position was last reset
    ticks,                 \* history: ticks that ran while Playing since then
    completions,           \* history: completion notifications since then
    current_array,         \* the application's array, the input of get_steps
    current_algorithm,     \* the name of the application's selected algorithm
    trace,                 \* the steps get_steps returned to the application last
    update_callback,       \* what the controller was constructed with: the
                           \* application's on_animation_update, or a mock
    array,                 \* the renderer's self.array
    comparing_indices,     \* the renderer's self.comparing_indices
    swapping_indices,      \* the renderer's self.swapping_indices
    sorted_indices         \* the renderer's self.sorted_indices

vars == <<is_playing, is_paused, current_step, animation_steps, speed, after_id,
          interpolation_frame, on_step_change, on_completion, pending,
          interval, lastOp, pre, resumed, emitted, events, ticks, completions,
          current_array, current_algorithm, trace, update_callback, array,
          comparing_indices, swapping_indices, sorted_indices>>

\* the fields of SortingVisualizerApp, which no controller method touches
app == <<current_array, current_algorithm, trace>>

\* the fields of VisualizationCanvas that decide what it shows
canvas == <<array, comparing_indices, swapping_indices, sorted_indices>>

\* the same fields as one value
Canvas ==
    [array |-> array, comparing_indices |-> comparing_indices,
     swapping_indices |-> swapping_indices, sorted_indices |-> sorted_indices]

(***************************************************************************)
(* What the callbacks receive.                                             *)
(***************************************************************************)
\* update_callback(action, indices, description, animation_data); `step` is a
\* ghost field recording current_step at delivery.
FrameEvent(cs, f) ==
    LET st == animation_steps[cs + 1] IN
    [kind |-> "frame", step |-> cs, action |-> st[1], indices |-> st[2],
     description |-> st[3], progress_num |-> f, interpolation_frame |-> f,
     is_final_frame |-> (f = INTERPOLATION_FRAMES - 1)]

\* on_step_change(step_number, description)
StepChange(n, d) ==
    [kind |-> "step_change", step_number |-> n, description |-> d]

\* on_completion()
Completion == [kind |-> "completion"]

\* the exception a handler let escape to the event loop
Raised(error) == [kind |-> "raised", error |-> error]

\* update_callback("reset", [], "Reset to initial state")
ResetEvent ==
    [kind |-> "reset", action |-> "reset", indices |-> <<>>,
     description |-> "Reset to initial state"]

(***************************************************************************)
(* Pure helpers.                                                           *)
(***************************************************************************)
Max(a, b) == IF a >= b THEN a ELSE b
Min(a, b) == IF a <= b THEN a ELSE b

Clamp_noFloor(s) == Min(ANIMATION_SPEED_MAX, s)

\* set_speed: max(ANIMATION_SPEED_MIN, min(ANIMATION_SPEED_MAX, speed))
Clamp(s) == Max(ANIMATION_SPEED_MIN, Min(ANIMATION_SPEED_MAX, s))

FrameInterval_times(sp) == (FRAME_INTERVAL_MS * sp) \div SpeedScale

\* get_frame_interval: int(FRAME_INTERVAL_MS / self.speed)
FrameInterval(sp) == (FRAME_INTERVAL_MS * SpeedScale) \div sp

NextPosition_lateWrap(cs, f) ==
    IF f + 1 > INTERPOLATION_FRAMES THEN <<cs + 1, 0>> ELSE <<cs, f + 1>>

NextPosition_skipLast(cs, f) ==
    IF f + 1 >= INTERPOLATION_FRAMES - 1 THEN <<cs + 1, 0>> ELSE <<cs, f + 1>>

\* _execute_frame, "Advance interpolation frame": the position after a frame
NextPosition(cs, f) ==
    IF f + 1 >= INTERPOLATION_FRAMES THEN <<cs + 1, 0>> ELSE <<cs, f + 1>>

\* root.after returns an identifier that no outstanding callback has and that
\* differs from the one held in after_id (tkinter never reuses an identifier;
\* the least free one stands for it).
FreshId(p, aid) ==
    LET used == p \cup {aid}
    IN CHOOSE i \in 1..(Cardinality(used) + 1) :
           /\ i \notin used
           /\ \A j \in 1..(i - 1) : j \in used

\* root.after_cancel(id)
Cancel(p, id) == p \ {id}

Schedule_invertedGuard(playing, paused, p, aid, d, sp) ==
    IF playing /\ ~paused
    THEN <<p, aid, d>>
    ELSE LET id == FreshId(p, aid)
         IN <<p \cup {id}, id, FrameInterval(sp)>>

\* _schedule_next_frame: the outstanding callbacks, after_id and latest delay
\* it leaves
Schedule(playing, paused, p, aid, d, sp) ==
    IF ~playing \/ paused
    THEN <<p, aid, d>>
    ELSE LET id == FreshId(p, aid)
         IN <<p \cup {id}, id, FrameInterval(sp)>>

\* is_running
is_running == is_playing /\ ~is_paused

\* get_progress
get_progress == <<current_step, Len(animation_steps)>>

\* history records
Op(name, arg) ==
    [op |-> name,
     s |-> IF name = "set_speed" THEN arg ELSE 0,
     steps |-> IF name = "set_steps" THEN arg ELSE <<>>]

Here == [playing |-> is_playing, paused |-> is_paused,
         inside |-> (current_step > 0 /\ interpolation_frame > 0)]

(***************************************************************************)
(* The step generators: get_steps of the five algorithms.  A step is       *)
(* <<action, indices, description>>; indices count from 0 as in the code,  *)
(* and a description is its template followed by the values the f-string   *)
(* interpolates.                                                           *)
(***************************************************************************)
At(arr, i) == arr[i + 1]

Swap_keepSecond(arr, i, j) == [arr EXCEPT ![i + 1] = arr[j + 1]]

\* arr[i], arr[j] = arr[j], arr[i]
Swap(arr, i, j) == [arr EXCEPT ![i + 1] = arr[j + 1], ![j + 1] = arr[i + 1]]

Range_inclusive(lo, hi) == [k \in 1..(hi - lo + 1) |-> lo + k - 1]

Range_fromSecond(lo, hi) == [k \in 1..(hi - lo - 1) |-> lo + k]

\* list(range(lo, hi))
Range(lo, hi) == [k \in 1..(hi - lo) |-> lo + k - 1]

\* BubbleSort.get_steps: the inner loop, for j in range(0, n - i - 1)
RECURSIVE BubblePass(_, _, _, _, _)
BubblePass(arr, steps, swapped, j, last) ==
    IF j >= last
    THEN [arr |-> arr, steps |-> steps, swapped |-> swapped]
    ELSE LET c == Append(steps, <<"compare", <<j, j + 1>>,
                       <<"Comparing {} and {}", At(arr, j), At(arr, j + 1)>> >>)
         IN IF At(arr, j) > At(arr, j + 1)
            THEN BubblePass(Swap(arr, j, j + 1),
                            Append(c, <<"swap", <<j, j + 1>>,
                                <<"Swapping {} and {}", At(arr, j), At(arr, j + 1)>> >>),
                            TRUE, j + 1, last)
            ELSE BubblePass(arr, c, swapped, j + 1, last)

RemainingMarks_none(arr, boundary) == <<>>

\* BubbleSort.get_steps: for k in range(n - i - 1), after a pass without swap
RemainingMarks(arr, boundary) ==
    [k \in 1..boundary |->
        <<"mark_sorted", <<k - 1>>,
          <<"Element {} is in correct position", At(arr, k - 1)>> >>]

\* BubbleSort.get_steps: the outer loop, for i in range(n), with its early exit
RECURSIVE BubbleOuter(_, _, _)
BubbleOuter(arr, steps, i) ==
    LET n == Len(arr)
    IN IF i >= n
       THEN [arr |-> arr, steps |-> steps]
       ELSE LET p == BubblePass(arr, steps, FALSE, 0, n - i - 1)
                m == Append(p.steps, <<"mark_sorted", <<n - i - 1>>,
                         <<"Element {} is now in correct position",
                           At(p.arr, n - i - 1)>> >>)
            IN IF ~p.swapped
               THEN [arr |-> p.arr,
                     steps |-> m \o RemainingMarks(p.arr, n - i - 1)]
               ELSE BubbleOuter(p.arr, m, i + 1)

BubbleSort_get_steps(arr) == BubbleOuter(arr, <<>>, 0).steps

\* SelectionSort.get_steps: the inner loop, for j in range(i + 1, n)
RECURSIVE SelectionScan(_, _, _, _)
SelectionScan(arr, steps, min_idx, j) ==
    IF j >= Len(arr)
    THEN [steps |-> steps, min_idx |-> min_idx]
    ELSE LET c == Append(steps, <<"compare", <<min_idx, j>>,
                       <<"Comparing {} with {}", At(arr, min_idx), At(arr, j)>> >>)
         IN IF At(arr, j) < At(arr, min_idx)
            THEN SelectionScan(arr,
                               Append(c, <<"highlight_min", <<j>>,
                                   <<"New minimum found: {} at position {}",
                                     At(arr, j), j>> >>),
                               j, j + 1)
            ELSE SelectionScan(arr, c, min_idx, j + 1)

SelectionSwap_always(arr, steps, i, min_idx) ==
    [arr |-> Swap(arr, i, min_idx),
     steps |-> Append(steps, <<"swap", <<i, min_idx>>,
                   <<"Swapping {} with minimum {}",
                     At(arr, i), At(arr, min_idx)>> >>)]

SelectionSwap_fromFirst(arr, steps, i, min_idx) ==
    IF min_idx # i
    THEN [arr |-> Swap(arr, 0, min_idx),
          steps |-> Append(steps, <<"swap", <<0, min_idx>>,
                        <<"Swapping {} with minimum {}",
                          At(arr, 0), At(arr, min_idx)>> >>)]
    ELSE [arr |-> arr, steps |-> steps]

\* SelectionSort.get_steps: the swap of the minimum found into position i
SelectionSwap(arr, steps, i, min_idx) ==
    IF min_idx # i
    THEN [arr |-> Swap(arr, i, min_idx),
          steps |-> Append(steps, <<"swap", <<i, min_idx>>,
                        <<"Swapping {} with minimum {}",
                          At(arr, i), At(arr, min_idx)>> >>)]
    ELSE [arr |-> arr, steps |-> steps]

\* SelectionSort.get_steps: the outer loop, for i in range(n)
RECURSIVE SelectionOuter(_, _, _)
SelectionOuter(arr, steps, i) ==
    IF i >= Len(arr)
    THEN [arr |-> arr, steps |-> steps]
    ELSE LET h == Append(steps, <<"highlight_current", <<i>>,
                       <<"Finding minimum element from position {}", i>> >>)
             s == SelectionScan(arr, h, i, i + 1)
             w == SelectionSwap(arr, s.steps, i, s.min_idx)
         IN SelectionOuter(w.arr,
                           Append(w.steps, <<"mark_sorted", <<i>>,
                               <<"Element {} is now in correct position",
                                 At(w.arr, i)>> >>),
                           i + 1)

SelectionSort_get_steps(arr) == SelectionOuter(arr, <<>>, 0).steps

\* InsertionSort.get_steps: while j >= 0 and arr_copy[j] > key
RECURSIVE InsertionShift(_, _, _, _, _)
InsertionShift(arr, steps, key, i, j) ==
    IF j >= 0 /\ At(arr, j) > key
    THEN InsertionShift([arr EXCEPT ![j + 2] = At(arr, j)],
                        steps \o << <<"compare", <<j, i>>,
                                      <<"Comparing {} with {}", At(arr, j), key>> >>,
                                    <<"shift", <<j, j + 1>>,
                                      <<"Moving {} one position right", At(arr, j)>> >> >>,
                        key, i, j - 1)
    ELSE [arr |-> arr, steps |-> steps, j |-> j]

SortedPortionMarks_onlyNew(i) ==
    << <<"mark_sorted", <<i>>, <<"Position {} is now in sorted portion", i>> >> >>

\* InsertionSort.get_steps: for k in range(i + 1), the marks that end a round
SortedPortionMarks(i) ==
    [k \in 1..(i + 1) |->
        <<"mark_sorted", <<k - 1>>,
          <<"Position {} is now in sorted portion", k - 1>> >>]

\* InsertionSort.get_steps: the outer loop, for i in range(1, n)
RECURSIVE InsertionOuter(_, _, _)
InsertionOuter(arr, steps, i) ==
    IF i >= Len(arr)
    THEN [arr |-> arr, steps |-> steps]
    ELSE LET key == At(arr, i)
             h == Append(steps, <<"highlight_current", <<i>>,
                       <<"Inserting element {} into sorted portion", key>> >>)
             w == InsertionShift(arr, h, key, i, i - 1)
             moved == w.j + 1 # i
             placed == IF moved THEN [w.arr EXCEPT ![w.j + 2] = key] ELSE w.arr
             p == IF moved
                  THEN w.steps \o
                       << <<"array_update", Range(0, Len(placed)),
                            <<"Array updated: {}">> \o placed>>,
                          <<"insert", <<w.j + 1>>,
                            <<"Inserting {} at position {}", key, w.j + 1>> >> >>
                  ELSE w.steps
         IN InsertionOuter(placed, p \o SortedPortionMarks(i), i + 1)

InsertionSort_get_steps_noInitialMark(arr) ==
    IF Len(arr) = 0 THEN <<>> ELSE InsertionOuter(arr, <<>>, 1).steps

InsertionSort_get_steps(arr) ==
    IF Len(arr) = 0
    THEN <<>>
    ELSE InsertionOuter(arr,
                        << <<"mark_sorted", <<0>>,
                             <<"Element {} at position 0 is initially sorted",
                               At(arr, 0)>> >> >>,
                        1).steps

\* An element of an array is the integer the code compares.  To tell equal
\* values apart, as Python tells equal objects apart, an element may carry
\* the position it came from in the digits from IdentityBase up; the code's
\* comparisons see Value(e) only.  An element without identity is its value.
IdentityBase == 10
Value(e) == e % IdentityBase
Identity(e) == e \div IdentityBase

TakeLeft_strict(l, r) == Value(l) < Value(r)

\* MergeSort.get_steps, merge: if left_arr[i] <= right_arr[j]
TakeLeft(l, r) == Value(l) <= Value(r)

\* MergeSort.get_steps, merge: while i < len(left_arr) and j < len(right_arr)
RECURSIVE MergeBoth(_, _, _, _, _, _, _, _, _)
MergeBoth(arr, steps, left_arr, right_arr, i, j, k, left, mid) ==
    IF i < Len(left_arr) /\ j < Len(right_arr)
    THEN LET c == Append(steps, <<"compare", <<left + i, mid + 1 + j>>,
                       <<"Comparing {} and {}", At(left_arr, i), At(right_arr, j)>> >>)
         IN IF TakeLeft(At(left_arr, i), At(right_arr, j))
            THEN MergeBoth([arr EXCEPT ![k + 1] = At(left_arr, i)],
                           Append(c, <<"place", <<k>>,
                               <<"Placing {} at position {}", At(left_arr, i), k>> >>),
                           left_arr, right_arr, i + 1, j, k + 1, left, mid)
            ELSE MergeBoth([arr EXCEPT ![k + 1] = At(right_arr, j)],
                           Append(c, <<"place", <<k>>,
                               <<"Placing {} at position {}", At(right_arr, j), k>> >>),
                           left_arr, right_arr, i, j + 1, k + 1, left, mid)
    ELSE [arr |-> arr, steps |-> steps, i |-> i, j |-> j, k |-> k]

\* MergeSort.get_steps, merge: the two loops copying what is left of one side
RECURSIVE MergeRest(_, _, _, _, _)
MergeRest(arr, steps, side, i, k) ==
    IF i < Len(side)
    THEN MergeRest([arr EXCEPT ![k + 1] = At(side, i)],
                   Append(steps, <<"place", <<k>>,
                       <<"Placing remaining {} at position {}", At(side, i), k>> >>),
                   side, i + 1, k + 1)
    ELSE [arr |-> arr, steps |-> steps, k |-> k]

merge_noUpdate(arr, steps, left, mid, right) ==
    LET left_arr == SubSeq(arr, left + 1, mid + 1)
        right_arr == SubSeq(arr, mid + 2, right + 1)
        s == Append(steps, <<"merge_start", <<left, mid, right>>,
                 <<"Merging sorted subarrays [{}..{}] and [{}..{}]",
                   left, mid, mid + 1, right>> >>)
        b == MergeBoth(arr, s, left_arr, right_arr, 0, 0, left, left, mid)
        l == MergeRest(b.arr, b.steps, left_arr, b.i, b.k)
        r == MergeRest(l.arr, l.steps, right_arr, b.j, l.k)
    IN [arr |-> r.arr,
        steps |-> Append(r.steps,
                     <<"mark_sorted", Range(left, right + 1),
                       <<"Merged section [{}..{}] is now sorted", left, right>> >>)]

merge_staleSnapshot(arr, steps, left, mid, right) ==
    LET left_arr == SubSeq(arr, left + 1, mid + 1)
        right_arr == SubSeq(arr, mid + 2, right + 1)
        s == Append(steps, <<"merge_start", <<left, mid, right>>,
                 <<"Merging sorted subarrays [{}..{}] and [{}..{}]",
                   left, mid, mid + 1, right>> >>)
        b == MergeBoth(arr, s, left_arr, right_arr, 0, 0, left, left, mid)
        l == MergeRest(b.arr, b.steps, left_arr, b.i, b.k)
        r == MergeRest(l.arr, l.steps, right_arr, b.j, l.k)
    IN [arr |-> r.arr,
        steps |-> r.steps \o
                  << <<"array_update", Range(0, Len(arr)),
                       <<"Array updated: {}">> \o arr>>,
                     <<"mark_sorted", Range(left, right + 1),
                       <<"Merged section [{}..{}] is now sorted", left, right>> >> >>]

\* MergeSort.get_steps: merge(left, mid, right)
merge(arr, steps, left, mid, right) ==
    LET left_arr == SubSeq(arr, left + 1, mid + 1)
        right_arr == SubSeq(arr, mid + 2, right + 1)
        s == Append(steps, <<"merge_start", <<left, mid, right>>,
                 <<"Merging sorted subarrays [{}..{}] and [{}..{}]",
                   left, mid, mid + 1, right>> >>)
        b == MergeBoth(arr, s, left_arr, right_arr, 0, 0, left, left, mid)
        l == MergeRest(b.arr, b.steps, left_arr, b.i, b.k)
        r == MergeRest(l.arr, l.steps, right_arr, b.j, l.k)
    IN [arr |-> r.arr,
        steps |-> r.steps \o
                  << <<"array_update", Range(0, Len(arr)),
                       <<"Array updated: {}">> \o r.arr>>,
                     <<"mark_sorted", Range(left, right + 1),
                       <<"Merged section [{}..{}] is now sorted", left, right>> >> >>]

\* MergeSort.get_steps: merge_sort_helper(left, right)
RECURSIVE merge_sort_helper(_, _, _, _)
merge_sort_helper(arr, steps, left, right) ==
    IF left >= right
    THEN [arr |-> arr,
          steps |-> IF left = right
                    THEN Append(steps, <<"mark_sorted", <<left>>,
                             <<"Single element {} is already sorted",
                               At(arr, left)>> >>)
                    ELSE steps]
    ELSE LET mid == (left + right) \div 2
             d == Append(steps, <<"divide", <<left, mid, right>>,
                      <<"Dividing array from {} to {} at position {}",
                        left, right, mid>> >>)
             a == merge_sort_helper(arr, d, left, mid)
             b == merge_sort_helper(a.arr, a.steps, mid + 1, right)
         IN merge(b.arr, b.steps, left, mid, right)

MergeSort_get_steps(arr) == merge_sort_helper(arr, <<>>, 0, Len(arr) - 1).steps

\* QuickSort.get_steps, partition: for j in range(low, high)
RECURSIVE PartitionLoop(_, _, _, _, _, _)
PartitionLoop(arr, steps, pivot, i, j, high) ==
    IF j >= high
    THEN [arr |-> arr, steps |-> steps, i |-> i]
    ELSE LET c == Append(steps, <<"compare", <<j, high>>,
                       <<"Comparing {} with pivot {}", At(arr, j), pivot>> >>)
         IN IF At(arr, j) <= pivot
            THEN IF i + 1 # j
                 THEN PartitionLoop(Swap(arr, i + 1, j),
                                    Append(c, <<"swap", <<i + 1, j>>,
                                        <<"Swapping {} and {}",
                                          At(arr, i + 1), At(arr, j)>> >>),
                                    pivot, i + 1, j + 1, high)
                 ELSE PartitionLoop(arr, c, pivot, i + 1, j + 1, high)
            ELSE PartitionLoop(arr, c, pivot, i, j + 1, high)

partition_alwaysPlace(arr, steps, low, high) ==
    LET pivot == At(arr, high)
        h == Append(steps, <<"highlight_pivot", <<high>>,
                 <<"Choosing {} as pivot", pivot>> >>)
        l == PartitionLoop(arr, h, pivot, low - 1, low, high)
    IN [arr |-> Swap(l.arr, l.i + 1, high),
        steps |-> Append(l.steps, <<"swap", <<l.i + 1, high>>,
                      <<"Placing pivot {} in correct position", pivot>> >>),
        pivot_idx |-> l.i + 1]

\* QuickSort.get_steps: partition(low, high), the last element as pivot
partition(arr, steps, low, high) ==
    LET pivot == At(arr, high)
        h == Append(steps, <<"highlight_pivot", <<high>>,
                 <<"Choosing {} as pivot", pivot>> >>)
        l == PartitionLoop(arr, h, pivot, low - 1, low, high)
        placing == l.i + 1 # high
    IN [arr |-> IF placing THEN Swap(l.arr, l.i + 1, high) ELSE l.arr,
        steps |-> IF placing
                  THEN Append(l.steps, <<"swap", <<l.i + 1, high>>,
                           <<"Placing pivot {} in correct position", pivot>> >>)
                  ELSE l.steps,
        pivot_idx |-> l.i + 1]

\* QuickSort.get_steps: quick_sort_helper(low, high)
RECURSIVE quick_sort_helper(_, _, _, _)
quick_sort_helper(arr, steps, low, high) ==
    IF low < high
    THEN LET p == partition(arr, steps, low, high)
             m == Append(p.steps, <<"mark_sorted", <<p.pivot_idx>>,
                      <<"Pivot {} is now in correct position",
                        At(p.arr, p.pivot_idx)>> >>)
             a == quick_sort_helper(p.arr, m, low, p.pivot_idx - 1)
         IN quick_sort_helper(a.arr, a.steps, p.pivot_idx + 1, high)
    ELSE [arr |-> arr, steps |-> steps]

QuickSort_get_steps_noFinalMark(arr) ==
    quick_sort_helper(arr, <<>>, 0, Len(arr) - 1).steps

QuickSort_get_steps(arr) ==
    Append(quick_sort_helper(arr, <<>>, 0, Len(arr) - 1).steps,
           <<"mark_sorted", Range(0, Len(arr)), <<"All elements are now sorted">> >>)

\* arr_copy as get_steps leaves it when it returns
arr_copy(name, arr) ==
    CASE name = "Bubble Sort" -> BubbleOuter(arr, <<>>, 0).arr
      [] name = "Selection Sort" -> SelectionOuter(arr, <<>>, 0).arr
      [] name = "Insertion Sort" -> InsertionOuter(arr, <<>>, 1).arr
      [] name = "Merge Sort" -> merge_sort_helper(arr, <<>>, 0, Len(arr) - 1).arr
      [] name = "Quick Sort" -> quick_sort_helper(arr, <<>>, 0, Len(arr) - 1).arr

\* ALGORITHMS: the names the application offers
ALGORITHMS ==
    {"Bubble Sort", "Selection Sort", "Insertion Sort", "Merge Sort", "Quick Sort"}

\* ALGORITHMS[name]().get_steps(arr)
get_steps(name, arr) ==
    CASE name = "Bubble Sort" -> BubbleSort_get_steps(arr)
      [] name = "Selection Sort" -> SelectionSort_get_steps(arr)
      [] name = "Insertion Sort" -> InsertionSort_get_steps(arr)
      [] name = "Merge Sort" -> MergeSort_get_steps(arr)
      [] name = "Quick Sort" -> QuickSort_get_steps(arr)

(***************************************************************************)
(* The renderer, VisualizationCanvas: its backing array and the three      *)
(* index sets that decide the colour of a bar.  A canvas value c is a      *)
(* record of the four; drawing changes none of them and is left out.       *)
(***************************************************************************)
SetOf(indices) == {indices[k] : k \in 1..Len(indices)}

\* VisualizationCanvas.set_array
set_array(a) ==
    [array |-> a, comparing_indices |-> {}, swapping_indices |-> {},
     sorted_indices |-> {}]

\* The shapes an array_update description can have, as templates that the
\* values following them in the description are formatted into.  The part
\* behind the marker "Array updated: " is what ast.literal_eval is given.
SnapshotTexts ==
    {"Array updated: {}",          \* a list literal, as the generators write it
     "Array updated: ({})",        \* a tuple literal
     "Array updated: {} now",      \* not an expression
     "Array updated: sorted({})",  \* an expression that is not a literal
     "Array updated: {{{}: 0}}",   \* a dict display with a list as its key
     "Array updated:{}",           \* no blank behind the colon
     "Updated: {}"}                \* no marker at all

\* "Array updated:" in description
HasMarker(description) == description[1] # "Updated: {}"

\* ast.literal_eval(description.split("Array updated: ")[1]): the type and
\* value of the result, or the exception raised on the way
ParseSnapshot(description) ==
    CASE description[1] = "Array updated: {}" ->
            [type |-> "list", value |-> Tail(description), raised |-> "None"]
      [] description[1] = "Array updated: ({})" ->
            [type |-> "tuple", value |-> Tail(description), raised |-> "None"]
      [] description[1] = "Array updated: {} now" ->
            [type |-> "None", value |-> <<>>, raised |-> "SyntaxError"]
      [] description[1] = "Array updated: sorted({})" ->
            [type |-> "None", value |-> <<>>, raised |-> "ValueError"]
      [] description[1] = "Array updated: {{{}: 0}}" ->
            [type |-> "None", value |-> <<>>, raised |-> "TypeError"]
      [] description[1] = "Array updated:{}" ->
            [type |-> "None", value |-> <<>>, raised |-> "IndexError"]

\* VisualizationCanvas._handle_compare
handle_compare(c, indices, is_final_frame) ==
    IF is_final_frame
    THEN [c EXCEPT !.comparing_indices = SetOf(indices)]
    ELSE c

handle_swap_onFirstFrame(c, indices, progress_num, is_final_frame) ==
    IF Len(indices) # 2
    THEN c
    ELSE LET idx1 == indices[1]
             idx2 == indices[2]
         IN IF progress_num = 0
            THEN [c EXCEPT !.array = Swap(@, idx1, idx2),
                           !.swapping_indices = @ \cup {idx1, idx2},
                           !.comparing_indices = @ \ {idx1, idx2}]
            ELSE IF is_final_frame
            THEN [c EXCEPT !.swapping_indices = @ \ {idx1, idx2}]
            ELSE c

\* VisualizationCanvas._handle_swap
handle_swap(c, indices, progress_num, is_final_frame) ==
    IF Len(indices) # 2
    THEN c
    ELSE LET idx1 == indices[1]
             idx2 == indices[2]
         IN IF progress_num = 0
            THEN [c EXCEPT !.swapping_indices = @ \cup {idx1, idx2},
                           !.comparing_indices = @ \ {idx1, idx2}]
            ELSE IF is_final_frame
            THEN [c EXCEPT !.array = Swap(@, idx1, idx2),
                           !.swapping_indices = @ \ {idx1, idx2}]
            ELSE c

handle_mark_sorted_keepSwapping(c, indices) ==
    [c EXCEPT !.sorted_indices = @ \cup SetOf(indices),
              !.comparing_indices = @ \ SetOf(indices)]

\* VisualizationCanvas._handle_mark_sorted
handle_mark_sorted(c, indices) ==
    [c EXCEPT !.sorted_indices = @ \cup SetOf(indices),
              !.comparing_indices = @ \ SetOf(indices),
              !.swapping_indices = @ \ SetOf(indices)]

\* VisualizationCanvas._handle_highlight
handle_highlight(c, indices, is_final_frame) ==
    IF is_final_frame
    THEN [c EXCEPT !.comparing_indices = @ \cup SetOf(indices)]
    ELSE c

handle_array_update_ignore(c, is_final_frame, description) == c

\* the exceptions _handle_array_update catches
Caught == {"ValueError", "IndexError", "SyntaxError"}

\* VisualizationCanvas._handle_array_update; an exception that is not caught
\* leaves before any assignment
handle_array_update(c, is_final_frame, description) ==
    IF is_final_frame /\ HasMarker(description)
    THEN LET new_array == ParseSnapshot(description)
         IN IF /\ new_array.raised = "None"
               /\ new_array.type = "list"
               /\ Len(new_array.value) = Len(c.array)
            THEN [c EXCEPT !.array = new_array.value]
            ELSE c
    ELSE c

handle_reset_keepSorted(c) ==
    [c EXCEPT !.comparing_indices = {}, !.swapping_indices = {}]

\* VisualizationCanvas._handle_reset
handle_reset(c) ==
    [c EXCEPT !.comparing_indices = {}, !.swapping_indices = {},
              !.sorted_indices = {}]

\* VisualizationCanvas._handle_merge_actions
handle_merge_actions(c, action, indices, is_final_frame) ==
    CASE action = "divide" ->
            IF is_final_frame /\ Len(indices) >= 2
            THEN [c EXCEPT !.comparing_indices =
                               @ \cup (indices[1]..indices[Len(indices)])]
            ELSE c
      [] action = "merge_start" ->
            IF is_final_frame /\ Len(indices) >= 3
            THEN [c EXCEPT !.comparing_indices = @ \cup (indices[1]..indices[3])]
            ELSE c
      [] action \in {"place", "insert", "shift"} ->
            IF is_final_frame
            THEN [c EXCEPT !.comparing_indices = @ \cup SetOf(indices)]
            ELSE c

\* VisualizationCanvas.update_animation, for an event e with its animation data
update_animation(c, e) ==
    CASE e.action = "compare" -> handle_compare(c, e.indices, e.is_final_frame)
      [] e.action = "swap" ->
            handle_swap(c, e.indices, e.progress_num, e.is_final_frame)
      [] e.action \in {"mark_sorted", "sorted"} -> handle_mark_sorted(c, e.indices)
      [] e.action \in {"highlight_pivot", "highlight_current", "highlight_min"} ->
            handle_highlight(c, e.indices, e.is_final_frame)
      [] e.action = "reset" -> handle_reset(c)
      [] e.action = "array_update" ->
            handle_array_update(c, e.is_final_frame, e.description)
      [] e.action \in {"divide", "merge_start", "place", "insert", "shift"} ->
            handle_merge_actions(c, e.action, e.indices, e.is_final_frame)
      [] OTHER -> c

\* VisualizationCanvas.highlight_completion
highlight_completion(c) ==
    [c EXCEPT !.sorted_indices = 0..(Len(c.array) - 1),
              !.comparing_indices = {}, !.swapping_indices = {}]

\* The exception update_animation lets escape for event e, or "None":
\* _handle_array_update when literal_eval raises one it does not catch, and
\* _handle_swap when an index is outside the array, on the frames that read
\* the bars (the mid-swap frames) or the values (the final frame).
update_raises(c, e) ==
    CASE /\ e.action = "swap"
         /\ Len(e.indices) = 2
         /\ e.progress_num # 0
         /\ ~(SetOf(e.indices) \subseteq 0..(Len(c.array) - 1)) -> "IndexError"
      [] /\ e.action = "array_update"
         /\ e.is_final_frame
         /\ HasMarker(e.description)
         /\ ParseSnapshot(e.description).raised \notin Caught \cup {"None"} ->
            ParseSnapshot(e.description).raised
      [] OTHER -> "None"

\* What the application's callbacks do to the canvas with one notice:
\* on_animation_update passes frame and reset events to update_animation,
\* on_animation_complete calls highlight_completion, on_step_change only
\* updates the control panel.
on_notice(c, e) ==
    CASE e.kind \in {"frame", "reset"} -> update_animation(c, e)
      [] e.kind = "completion" -> highlight_completion(c)
      [] OTHER -> c

RECURSIVE on_notices(_, _)
on_notices(c, notices) ==
    IF notices = <<>>
    THEN c
    ELSE on_notices(on_notice(c, Head(notices)), Tail(notices))


\* What a handler's notices do to the renderer: they reach it when the
\* controller was constructed with the application's on_animation_update, as
\* SortingVisualizerApp.__init__ does, and not when it was given a mock.
Render ==
    /\ UNCHANGED update_callback
    /\ IF update_callback = "on_animation_update"
       THEN LET c == on_notices(Canvas, emitted')
            IN /\ array' = c.array
               /\ comparing_indices' = c.comparing_indices
               /\ swapping_indices' = c.swapping_indices
               /\ sorted_indices' = c.sorted_indices
       ELSE UNCHANGED canvas

\* The controller on its own, constructed with a mock for update_callback as
\* in the controller's tests; the renderer stays as constructed.
Unwired ==
    /\ update_callback = "mock"
    /\ array = <<>>
    /\ comparing_indices = {}
    /\ swapping_indices = {}
    /\ sorted_indices = {}

(***************************************************************************)
(* Init: the controller as SortingVisualizerApp.__init__ leaves it.        *)
(***************************************************************************)
ControllerInit ==
    /\ is_playing = FALSE
    /\ is_paused = FALSE
    /\ current_step = 0
    /\ animation_steps = <<>>
    /\ speed = ANIMATION_SPEED_DEFAULT
    /\ after_id = None
    /\ interpolation_frame = 0
    /\ on_step_change = TRUE
    /\ on_completion = TRUE
    /\ pending = {}
    /\ interval = 0
    /\ lastOp = Op("init", None)
    /\ pre = Here
    /\ resumed = FALSE
    /\ emitted = <<>>
    /\ events = <<>>
    /\ ticks = 0
    /\ completions = 0

\* SortingVisualizerApp.__init__: no array and no algorithm yet
Init ==
    /\ ControllerInit
    /\ current_array = <<>>
    /\ current_algorithm = "None"
    /\ trace = <<>>
    /\ Unwired

(***************************************************************************)
(* Operations.                                                             *)
(***************************************************************************)
NewRun ==
    /\ UNCHANGED app
    /\ pre' = Here
    /\ resumed' = FALSE
    /\ events' = <<>>
    /\ ticks' = 0
    /\ completions' = 0
    /\ Render

SameRun ==
    /\ UNCHANGED app
    /\ pre' = Here
    /\ UNCHANGED <<resumed, events, ticks, completions>>
    /\ Render

Resuming == is_paused /\ interpolation_frame # 0 /\ Len(animation_steps) # 0

set_steps_keepFrame(steps) ==
    /\ animation_steps' = steps
    /\ current_step' = 0
    /\ UNCHANGED <<is_playing, is_paused, speed, after_id, interpolation_frame,
                   on_step_change, on_completion, pending, interval>>
    /\ lastOp' = Op("set_steps", steps)
    /\ emitted' = <<>>
    /\ NewRun

set_steps(steps) ==
    /\ animation_steps' = steps
    /\ current_step' = 0
    /\ interpolation_frame' = 0
    /\ UNCHANGED <<is_playing, is_paused, speed, after_id,
                   on_step_change, on_completion, pending, interval>>
    /\ lastOp' = Op("set_steps", steps)
    /\ emitted' = <<>>
    /\ NewRun

set_speed(s) ==
    /\ speed' = Clamp(s)
    /\ UNCHANGED <<is_playing, is_paused, current_step, animation_steps, after_id,
                   interpolation_frame, on_step_change, on_completion, pending, interval>>
    /\ lastOp' = Op("set_speed", s)
    /\ emitted' = <<>>
    /\ SameRun

play_restartStep ==
    /\ Cardinality(pending) < MaxPending
    /\ completions < MaxCompletions
    /\ IF Len(animation_steps) = 0
       THEN UNCHANGED <<is_playing, is_paused, after_id, pending, interval,
                       interpolation_frame>>
       ELSE /\ is_playing' = TRUE
            /\ is_paused' = FALSE
            /\ interpolation_frame' = 0
            /\ LET r == Schedule(TRUE, FALSE, pending, after_id, interval, speed)
               IN pending' = r[1] /\ after_id' = r[2] /\ interval' = r[3]
    /\ UNCHANGED <<current_step, animation_steps, speed,
                   on_step_change, on_completion>>
    /\ lastOp' = Op("play", None)
    /\ emitted' = <<>>
    /\ pre' = Here
    /\ resumed' = (resumed \/ Resuming)
    /\ UNCHANGED app
    /\ UNCHANGED <<events, ticks, completions>>
    /\ Render

play_rewind ==
    /\ Cardinality(pending) < MaxPending
    /\ completions < MaxCompletions
    /\ IF Len(animation_steps) = 0
       THEN UNCHANGED <<is_playing, is_paused, after_id, pending, interval>>
       ELSE /\ is_playing' = TRUE
            /\ is_paused' = FALSE
            /\ LET r == Schedule(TRUE, FALSE, pending, after_id, interval, speed)
               IN pending' = r[1] /\ after_id' = r[2] /\ interval' = r[3]
    /\ current_step' = IF current_step >= Len(animation_steps)
                       THEN 0 ELSE current_step
    /\ UNCHANGED <<animation_steps, speed, interpolation_frame,
                   on_step_change, on_completion>>
    /\ lastOp' = Op("play", None)
    /\ emitted' = <<>>
    /\ pre' = Here
    /\ resumed' = (resumed \/ Resuming)
    /\ UNCHANGED app
    /\ UNCHANGED <<events, ticks, completions>>
    /\ Render

play ==
    /\ Cardinality(pending) < MaxPending
    /\ completions < MaxCompletions
    /\ IF Len(animation_steps) = 0
       THEN UNCHANGED <<is_playing, is_paused, after_id, pending, interval>>
       ELSE /\ is_playing' = TRUE
            /\ is_paused' = FALSE
            /\ LET r == Schedule(TRUE, FALSE, pending, after_id, interval, speed)
               IN pending' = r[1] /\ after_id' = r[2] /\ interval' = r[3]
    /\ UNCHANGED <<current_step, animation_steps, speed, interpolation_frame,
                   on_step_change, on_completion>>
    /\ lastOp' = Op("play", None)
    /\ emitted' = <<>>
    /\ pre' = Here
    /\ resumed' = (resumed \/ Resuming)
    /\ UNCHANGED app
    /\ UNCHANGED <<events, ticks, completions>>
    /\ Render

pause_keepPlaying ==
    /\ is_paused' = TRUE
    /\ UNCHANGED is_playing
    /\ IF after_id # None
       THEN pending' = Cancel(pending, after_id) /\ after_id' = None
       ELSE UNCHANGED <<pending, after_id>>
    /\ UNCHANGED <<current_step, animation_steps, speed, interpolation_frame,
                   on_step_change, on_completion, interval>>
    /\ lastOp' = Op("pause", None)
    /\ emitted' = <<>>
    /\ SameRun

pause ==
    /\ is_paused' = TRUE
    /\ is_playing' = FALSE
    /\ IF after_id # None
       THEN pending' = Cancel(pending, after_id) /\ after_id' = None
       ELSE UNCHANGED <<pending, after_id>>
    /\ UNCHANGED <<current_step, animation_steps, speed, interpolation_frame,
                   on_step_change, on_completion, interval>>
    /\ lastOp' = Op("pause", None)
    /\ emitted' = <<>>
    /\ SameRun

\* the body of stop(), which reset() runs too
StopBody ==
    /\ is_playing' = FALSE
    /\ is_paused' = FALSE
    /\ current_step' = 0
    /\ interpolation_frame' = 0
    /\ IF after_id # None
       THEN pending' = Cancel(pending, after_id) /\ after_id' = None
       ELSE UNCHANGED <<pending, after_id>>
    /\ UNCHANGED <<animation_steps, speed, on_step_change, on_completion,
                   interval>>

stop_keepTick ==
    /\ is_playing' = FALSE
    /\ is_paused' = FALSE
    /\ current_step' = 0
    /\ interpolation_frame' = 0
    /\ UNCHANGED <<pending, after_id>>
    /\ UNCHANGED <<animation_steps, speed, on_step_change, on_completion,
                   interval>>
    /\ lastOp' = Op("stop", None)
    /\ emitted' = <<>>
    /\ NewRun

stop ==
    /\ StopBody
    /\ lastOp' = Op("stop", None)
    /\ emitted' = <<>>
    /\ NewRun

reset ==
    /\ StopBody
    /\ lastOp' = Op("reset", None)
    /\ emitted' = <<ResetEvent>>
    /\ NewRun

cleanup ==
    /\ IF after_id # None
       THEN pending' = Cancel(pending, after_id) /\ after_id' = None
       ELSE UNCHANGED <<pending, after_id>>
    /\ is_playing' = FALSE
    /\ is_paused' = FALSE
    /\ UNCHANGED <<current_step, animation_steps, speed, interpolation_frame,
                   on_step_change, on_completion, interval>>
    /\ lastOp' = Op("cleanup", None)
    /\ emitted' = <<>>
    /\ SameRun

FrameNotices_everyFrame ==
    (IF on_step_change
     THEN <<StepChange(current_step + 1, animation_steps[current_step + 1][3])>>
     ELSE <<>>)
    \o <<FrameEvent(current_step, interpolation_frame)>>

\* _complete_animation: the notifications it sends
CompletionNotices ==
    (IF on_step_change /\ Len(animation_steps) # 0
     THEN <<StepChange(Len(animation_steps), "Animation completed")>>
     ELSE <<>>)
    \o (IF on_completion THEN <<Completion>> ELSE <<>>)

\* _execute_frame: what one frame delivers, step-change first
FrameNotices ==
    (IF interpolation_frame = 0 /\ on_step_change
     THEN <<StepChange(current_step + 1, animation_steps[current_step + 1][3])>>
     ELSE <<>>)
    \o <<FrameEvent(current_step, interpolation_frame)>>

NotRunning_onlyPaused(playing, paused) == paused

\* _execute_frame: the guard that makes a callback return at once
NotRunning(playing, paused) == ~playing \/ paused

\* the callback t registered with root.after fires: _execute_frame
execute_frame(t) ==
    /\ t \in pending
    /\ lastOp' = Op("tick", None)
    /\ pre' = Here
    /\ UNCHANGED app
    /\ UNCHANGED <<animation_steps, speed, on_step_change, on_completion>>
    /\ IF NotRunning(is_playing, is_paused)
       THEN /\ pending' = pending \ {t}
            /\ UNCHANGED <<is_playing, is_paused, current_step,
                           interpolation_frame, after_id, interval>>
            /\ emitted' = <<>>
            /\ UNCHANGED <<resumed, events, ticks, completions>>
       ELSE IF current_step >= Len(animation_steps)
       THEN \* _complete_animation
            /\ is_playing' = FALSE
            /\ is_paused' = FALSE
            /\ after_id' = None
            /\ pending' = pending \ {t}
            /\ UNCHANGED <<current_step, interpolation_frame, interval>>
            /\ emitted' = CompletionNotices
            /\ UNCHANGED resumed
            /\ events' = events \o emitted'
            /\ ticks' = ticks + 1
            /\ completions' = completions + 1
       ELSE IF Len(animation_steps[current_step + 1]) # 3
       THEN \* the unpacking into (action, indices, description) raises
            /\ pending' = pending \ {t}
            /\ UNCHANGED <<is_playing, is_paused, current_step,
                           interpolation_frame, after_id, interval>>
            /\ emitted' = <<Raised("ValueError")>>
            /\ UNCHANGED <<resumed, events, ticks, completions>>
       ELSE IF /\ update_callback = "on_animation_update"
               /\ update_raises(Canvas, FrameEvent(current_step,
                                                   interpolation_frame)) # "None"
       THEN \* the renderer raises inside update_callback, after the
            \* step-change notification and before the position advances
            /\ pending' = pending \ {t}
            /\ UNCHANGED <<is_playing, is_paused, current_step,
                           interpolation_frame, after_id, interval>>
            /\ emitted' = SubSeq(FrameNotices, 1, Len(FrameNotices) - 1)
                           \o <<Raised(update_raises(Canvas,
                                   FrameEvent(current_step, interpolation_frame)))>>
            /\ events' = events \o SubSeq(FrameNotices, 1, Len(FrameNotices) - 1)
            /\ UNCHANGED <<resumed, ticks, completions>>
       ELSE /\ emitted' = FrameNotices
            /\ LET np == NextPosition(current_step, interpolation_frame)
               IN /\ current_step' = np[1]
                  /\ interpolation_frame' = np[2]
            /\ UNCHANGED <<is_playing, is_paused>>
            /\ LET r == Schedule(is_playing, is_paused,
                                 pending \ {t}, after_id, interval, speed)
               IN pending' = r[1] /\ after_id' = r[2] /\ interval' = r[3]
            /\ UNCHANGED resumed
            /\ events' = events \o emitted'
            /\ ticks' = ticks + 1
            /\ UNCHANGED completions
    /\ Render

Tick == \E t \in pending : execute_frame(t)

Next ==
    \/ \E steps \in Traces : set_steps(steps)
    \/ \E s \in SpeedInputs : set_speed(s)
    \/ play
    \/ pause
    \/ stop
    \/ reset
    \/ cleanup
    \/ Tick

Spec == Init /\ [][Next]_vars

(***************************************************************************)
(* Uninterrupted playback: a trace is set while the controller is idle,    *)
(* play() starts it once, and nothing but set_speed and the scheduled      *)
(* callbacks happens until it completes.  tkinter's main loop runs every   *)
(* callback registered with root.after, hence the fairness on Tick.        *)
(***************************************************************************)
\* the callbacks from which a listener can call back into the controller
\* during a frame, and the operations the listener calls
Callbacks == {"on_step_change", "update_callback"}

Reentrant == {"stop", "reset"}

\* _execute_frame when the listener named by where calls stop() or reset() on
\* the controller: the call returns into _execute_frame, which goes on with
\* the rest of the frame (the frame event if the call came from
\* on_step_change, then the advance of interpolation_frame and
\* _schedule_next_frame) on the fields stop() has just reset.
execute_frame_calling(t, where, which) ==
    /\ t \in pending
    /\ ~NotRunning(is_playing, is_paused)
    /\ current_step < Len(animation_steps)
    /\ Len(animation_steps[current_step + 1]) = 3
    /\ update_callback = "mock"
    /\ where = "on_step_change" => (interpolation_frame = 0 /\ on_step_change)
    /\ LET before == IF where = "on_step_change"
                     THEN SubSeq(FrameNotices, 1, Len(FrameNotices) - 1)
                     ELSE FrameNotices
           during == IF which = "reset" THEN <<ResetEvent>> ELSE <<>>
           after == IF where = "on_step_change"
                    THEN <<FrameEvent(current_step, 0)>>
                    ELSE <<>>
           \* stop(): position 0, frame 0, not playing, after_id cancelled
           stopped == IF after_id # None
                      THEN Cancel(pending \ {t}, after_id)
                      ELSE pending \ {t}
           np == NextPosition(0, 0)
           r == Schedule(FALSE, FALSE, stopped, None, interval, speed)
       IN /\ is_playing' = FALSE
          /\ is_paused' = FALSE
          /\ current_step' = np[1]
          /\ interpolation_frame' = np[2]
          /\ pending' = r[1] /\ after_id' = r[2] /\ interval' = r[3]
          /\ emitted' = before \o during \o after
          /\ events' = after
    /\ UNCHANGED <<animation_steps, speed, on_step_change, on_completion>>
    /\ lastOp' = Op(which, where)
    /\ pre' = Here
    /\ resumed' = FALSE
    /\ ticks' = 0
    /\ completions' = 0
    /\ UNCHANGED app
    /\ Render

\* a controller whose listeners may stop or reset it during a frame
ReentrantNext ==
    \/ ~is_playing /\ \E steps \in Traces : set_steps(steps)
    \/ ~is_playing /\ completions = 0 /\ play
    \/ is_playing /\ pause
    \/ Tick
    \/ \E t \in pending, where \in Callbacks, which \in Reentrant :
          execute_frame_calling(t, where, which)

ReentrantSpec == Init /\ [][ReentrantNext]_vars

PlaybackNext ==
    \/ ~is_playing /\ \E steps \in Traces : set_steps(steps)
    \/ \E s \in SpeedInputs : set_speed(s)
    \/ ~is_playing /\ completions = 0 /\ play
    \/ Tick

PlaybackSpec == Init /\ [][PlaybackNext]_vars /\ WF_vars(Tick)

\* Traces with a step that is not a triple, built from the three malformed
\* steps of test_malformed_steps around one well-formed step.
MalformedPool ==
    << <<"compare">>,
       <<"swap", <<0, 1>> >>,
       <<"invalid", <<0, 1>>, "description", "extra">> >>

MalformedTraces ==
    {<<MalformedPool[k]>> : k \in 1..Len(MalformedPool)}
    \cup {<<StepPool[1], MalformedPool[k]>> : k \in 1..Len(MalformedPool)}
    \cup {<<MalformedPool[k], StepPool[1]>> : k \in 1..Len(MalformedPool)}
    \cup {MalformedPool}

\* The controller driven with such traces.
MalformedNext ==
    \/ \E steps \in MalformedTraces : set_steps(steps)
    \/ play
    \/ pause
    \/ stop
    \/ Tick

MalformedSpec == Init /\ [][MalformedNext]_vars

\* The arrays get_steps is applied to: every array of at most MaxLen values
\* from 1..MaxVal.
Arrays == UNION {[1..n -> 1..MaxVal] : n \in 0..MaxLen}

\* The application with an array and an algorithm chosen, before generation.
SortInit ==
    /\ ControllerInit
    /\ current_array \in Arrays
    /\ current_algorithm \in ALGORITHMS
    /\ trace = <<>>
    /\ Unwired

\* steps = self.current_algorithm_instance.get_steps(self.current_array)
call_get_steps ==
    /\ lastOp.op = "init"
    /\ trace' = get_steps(current_algorithm, current_array)
    /\ lastOp' = Op("get_steps", None)
    /\ UNCHANGED <<current_array, current_algorithm>>
    /\ UNCHANGED <<is_playing, is_paused, current_step, animation_steps, speed,
                   after_id, interpolation_frame, on_step_change, on_completion,
                   pending, interval, pre, resumed, emitted, events, ticks,
                   completions>>
    /\ UNCHANGED <<update_callback, canvas>>

SortNext == call_get_steps

SortSpec == SortInit /\ [][SortNext]_vars

(***************************************************************************)
(* Properties.                                                             *)
(***************************************************************************)
(***************************************************************************)
(* The renderer behind the controller, as SortingVisualizerApp wires them: *)
(* the canvas shows an array, the controller is handed traces built from   *)
(* the steps below and every notice of a handler reaches the canvas.       *)
(***************************************************************************)
\* the arrays shown
RenderArrays == {<<2, 1>>, <<3, 1, 2>>}

\* the arrays embedded in array_update descriptions
SnapshotValues == {<<1, 2>>, <<1, 2, 3>>}

\* swap steps with one, two and three indices, a compare and a mark_sorted
RenderPool ==
    {<<"swap", <<0, 1>>, <<"Swapping elements {} and {}", 0, 1>> >>,
     <<"swap", <<0>>, <<"Swapping elements {} and {}", 0, 0>> >>,
     <<"swap", <<0, 1, 0>>, <<"Swapping elements {} and {}", 0, 1>> >>,
     <<"mark_sorted", <<1>>, <<"Element at index {} is sorted", 1>> >>}

\* array_update steps, one for each shape of description and embedded array
UpdatePool ==
    {<<"array_update", <<>>, <<text>> \o value>> :
        text \in SnapshotTexts, value \in SnapshotValues}

RenderTraces ==
    {<<st>> : st \in RenderPool \cup UpdatePool}
    \cup {<< <<"compare", <<0, 1>>, <<"Comparing elements {} and {}", 0, 1>> >>,
             st >> : st \in RenderPool}

\* SortingVisualizerApp after __init__ and on_array_change(a)
RenderInit ==
    /\ ControllerInit
    /\ current_array \in RenderArrays
    /\ current_algorithm = "None"
    /\ trace = <<>>
    /\ update_callback = "on_animation_update"
    /\ array = current_array
    /\ comparing_indices = {}
    /\ swapping_indices = {}
    /\ sorted_indices = {}

\* SortingVisualizerApp.on_reset: controller.reset(), whose reset event
\* reaches the canvas first, then canvas.set_array(current_array)
on_reset ==
    /\ StopBody
    /\ lastOp' = Op("on_reset", None)
    /\ emitted' = <<ResetEvent>>
    /\ UNCHANGED app
    /\ pre' = Here
    /\ resumed' = FALSE
    /\ events' = <<>>
    /\ ticks' = 0
    /\ completions' = 0
    /\ UNCHANGED update_callback
    /\ LET c == set_array(current_array)
       IN /\ array' = c.array
          /\ comparing_indices' = c.comparing_indices
          /\ swapping_indices' = c.swapping_indices
          /\ sorted_indices' = c.sorted_indices

RenderNext ==
    \/ ~is_playing /\ \E steps \in RenderTraces : set_steps(steps)
    \/ ~is_playing /\ completions = 0 /\ play
    \/ pause
    \/ reset
    \/ on_reset
    \/ Tick

RenderSpec == RenderInit /\ [][RenderNext]_vars

(***************************************************************************)
(* The application with an algorithm and an array chosen: the play and     *)
(* pause buttons and the scheduled callbacks.  The control panel disables  *)
(* the play button while a run is playing and enables it again on pause    *)
(* and on completion.                                                      *)
(***************************************************************************)
PlayArrays == UNION {[1..n -> 1..MaxPlayVal] : n \in 1..MaxPlayLen}

ReplayArrays == UNION {[1..n -> 1..MaxReplayVal] : n \in 1..MaxReplayLen}

\* SortingVisualizerApp after __init__, on_algorithm_change and
\* on_array_change(a) for a in arrays
AppInit(arrays) ==
    /\ ControllerInit
    /\ current_array \in arrays
    /\ current_algorithm \in ALGORITHMS
    /\ trace = <<>>
    /\ update_callback = "on_animation_update"
    /\ array = current_array
    /\ comparing_indices = {}
    /\ swapping_indices = {}
    /\ sorted_indices = {}

\* SortingVisualizerApp.on_play: get_steps on current_array, set_steps, play
on_play ==
    /\ current_algorithm \in ALGORITHMS
    /\ current_array # <<>>
    /\ LET steps == get_steps(current_algorithm, current_array)
       IN /\ trace' = steps
          /\ animation_steps' = steps
          /\ current_step' = 0
          /\ interpolation_frame' = 0
          /\ IF Len(steps) = 0
             THEN UNCHANGED <<is_playing, is_paused, after_id, pending, interval>>
             ELSE /\ is_playing' = TRUE
                  /\ is_paused' = FALSE
                  /\ LET r == Schedule(TRUE, FALSE, pending, after_id,
                                       interval, speed)
                     IN pending' = r[1] /\ after_id' = r[2] /\ interval' = r[3]
    /\ UNCHANGED <<speed, on_step_change, on_completion>>
    /\ UNCHANGED <<current_array, current_algorithm>>
    /\ lastOp' = Op("on_play", None)
    /\ emitted' = <<>>
    /\ pre' = Here
    /\ resumed' = FALSE
    /\ events' = <<>>
    /\ ticks' = 0
    /\ completions' = 0
    /\ Render

\* SortingVisualizerApp.on_pause
on_pause == pause

\* the play button is enabled, the pause button is enabled
AppNext ==
    \/ ~is_playing /\ on_play
    \/ is_playing /\ on_pause
    \/ Tick

AppSpec == AppInit(ReplayArrays) /\ [][AppNext]_vars

\* One run from the array as set to completion: play is pressed once and
\* nothing else is.
PlayThroughNext ==
    \/ lastOp.op = "init" /\ on_play
    \/ Tick

PlayThroughSpec == AppInit(PlayArrays) /\ [][PlayThroughNext]_vars

(***************************************************************************)
(* Merge sort on arrays whose elements carry the position they start at,   *)
(* so that equal values can be followed through the merges.                *)
(***************************************************************************)
WithIdentity(a) == [k \in 1..Len(a) |-> a[k] + IdentityBase * k]

StableInit ==
    /\ ControllerInit
    /\ current_array \in {WithIdentity(a) : a \in Arrays}
    /\ current_algorithm = "Merge Sort"
    /\ trace = <<>>
    /\ Unwired

StableSpec == StableInit /\ [][SortNext]_vars

IsFrame(e) == e.kind = "frame"
Frames(log) == SelectSeq(log, IsFrame)

IsPrefix(a, b) == Len(a) <= Len(b) /\ a = SubSeq(b, 1, Len(a))

Stopped == ~is_playing /\ ~is_paused

\* C1: within one playback run (since the position was last reset by
\* set_steps/stop/reset, across any pauses and resumes) the k-th frame event
\* delivered is frame (k-1) mod 8 of step (k-1) div 8: every step gets its
\* frames 0..7 in increasing order before the next step's first frame, no step
\* is skipped, and at completion every step has had exactly 8 frames.
C1_FrameOrder ==
    LET fr == Frames(events) IN
    /\ \A k \in 1..Len(fr) :
          /\ fr[k].step = (k - 1) \div INTERPOLATION_FRAMES
          /\ fr[k].interpolation_frame = (k - 1) % INTERPOLATION_FRAMES
    /\ completions > 0 => Len(fr) = INTERPOLATION_FRAMES * Len(animation_steps)

C1_Witness ==
    /\ completions = 1
    /\ Len(animation_steps) = MaxSteps
    /\ Len(Frames(events)) = INTERPOLATION_FRAMES * MaxSteps
    /\ lastOp.op = "tick"

\* What playback of a non-empty trace that is never paused delivers, in order:
\* per step its step-change notification and its eight frames, then the final
\* step-change and the completion notification.
StepLog(steps, i) ==
    <<StepChange(i, steps[i][3])>> \o
    [f \in 1..INTERPOLATION_FRAMES |->
        [kind |-> "frame", step |-> i - 1, action |-> steps[i][1],
         indices |-> steps[i][2], description |-> steps[i][3],
         progress_num |-> f - 1, interpolation_frame |-> f - 1,
         is_final_frame |-> (f = INTERPOLATION_FRAMES)]]

RECURSIVE StepsLog(_, _)
StepsLog(steps, n) ==
    IF n = 0 THEN <<>> ELSE StepsLog(steps, n - 1) \o StepLog(steps, n)

UninterruptedLog(steps) ==
    StepsLog(steps, Len(steps))
    \o <<StepChange(Len(steps), "Animation completed"), Completion>>

\* C2: whatever pauses and resumes a run of a non-empty trace went through,
\* what it has delivered so far is the prefix of the never-paused delivery that
\* its position (current_step, interpolation_frame) stands for, and at its
\* first completion it has delivered exactly the never-paused sequence.
C2_PauseResumeTransparent ==
    (Len(animation_steps) # 0 /\ completions <= 1) =>
        /\ IsPrefix(events, UninterruptedLog(animation_steps))
        /\ completions = 0 =>
              Len(events) = current_step * (INTERPOLATION_FRAMES + 1)
                            + (IF interpolation_frame = 0 THEN 0
                               ELSE interpolation_frame + 1)
        /\ completions = 1 => events = UninterruptedLog(animation_steps)

C2_Witness ==
    /\ resumed
    /\ completions = 1
    /\ Len(animation_steps) = MaxSteps
    /\ events = UninterruptedLog(animation_steps)

PlaybackDone ==
    /\ Stopped
    /\ completions = 1
    /\ Len(Frames(events)) = Len(animation_steps) * INTERPOLATION_FRAMES
    /\ ticks = Len(animation_steps) * INTERPOLATION_FRAMES + 1

\* C3: in uninterrupted playback, once play() has started a trace the
\* completion notification eventually occurs and the controller is Stopped,
\* after exactly len(trace) * 8 frame events and len(trace) * 8 + 1 ticks.
C3_PlaybackCompletes == is_playing ~> PlaybackDone

C3_Witness ==
    /\ PlaybackDone
    /\ Len(animation_steps) = MaxSteps
    /\ lastOp.op = "tick"

\* C4: a tick that runs while Playing with current_step >= len(trace) delivers
\* no frame event, leaves the mode Stopped, emits one step-change notification
\* carrying len(trace) and then the completion notification once, and
\* schedules nothing.
C4_TickFinalizes ==
    [][(lastOp'.op = "tick" /\ is_running
            /\ current_step >= Len(animation_steps)) =>
         /\ Stopped'
         /\ Len(emitted') = 2
         /\ emitted'[1].kind = "step_change"
         /\ emitted'[1].step_number = Len(animation_steps)
         /\ emitted'[2] = Completion
         /\ pending' \subseteq pending]_vars

\* C5: after reset(), from whatever state it was called in, current_step and
\* interpolation_frame are 0, the mode is Stopped, no tick is pending, and
\* the render callback got exactly one event, the reset event with no indices.
C5_ResetPostcondition ==
    lastOp.op = "reset" =>
        /\ current_step = 0
        /\ interpolation_frame = 0
        /\ Stopped
        /\ pending = {}
        /\ emitted = <<ResetEvent>>

C7_SetStepsCancels ==
    [][(lastOp'.op = "set_steps" /\ is_running /\ after_id \in pending) =>
         /\ Stopped'
         /\ after_id \notin pending']_vars

\* C8: set_steps(trace) stores the trace it is given and puts current_step and
\* interpolation_frame at 0 from any position, so get_progress() is
\* (0, len(trace)); the speed is what it was.
C8_SetStepsResets ==
    [][lastOp'.op = "set_steps" =>
         /\ animation_steps' = lastOp'.steps
         /\ current_step' = 0
         /\ interpolation_frame' = 0
         /\ get_progress' = <<0, Len(lastOp'.steps)>>
         /\ speed' = speed]_vars

C8_Witness ==
    /\ lastOp.op = "set_steps"
    /\ pre.inside
    /\ Len(animation_steps) = MaxSteps
    /\ speed # ANIMATION_SPEED_DEFAULT
    /\ get_progress = <<0, MaxSteps>>

PositionInRange ==
    /\ 0 <= interpolation_frame
    /\ interpolation_frame < INTERPOLATION_FRAMES
    /\ 0 <= current_step
    /\ current_step <= Len(animation_steps)

\* C9: always 0 <= interpolation_frame < 8 and 0 <= current_step <= len(trace),
\* and whenever current_step advances interpolation_frame is 0 right after.
C9_PositionInvariant ==
    /\ []PositionInRange
    /\ [][current_step' > current_step => interpolation_frame' = 0]_vars

C9_Witness ==
    /\ lastOp.op = "tick"
    /\ Len(emitted) = 1
    /\ emitted[1].kind = "frame"
    /\ emitted[1].step = MaxSteps - 1
    /\ emitted[1].is_final_frame
    /\ current_step = MaxSteps
    /\ interpolation_frame = 0

\* C10: the speed is always within [0.5, 3.0]; right after set_speed(s) it is
\* 3.0 if s was above 3.0, 0.5 if s was below 0.5, and s itself otherwise.
C10_SpeedClamped ==
    /\ ANIMATION_SPEED_MIN <= speed
    /\ speed <= ANIMATION_SPEED_MAX
    /\ lastOp.op = "set_speed" =>
          speed = (IF lastOp.s > ANIMATION_SPEED_MAX THEN ANIMATION_SPEED_MAX
                   ELSE IF lastOp.s < ANIMATION_SPEED_MIN THEN ANIMATION_SPEED_MIN
                   ELSE lastOp.s)

C10_Witness ==
    /\ lastOp = Op("set_speed", -10)
    /\ speed = ANIMATION_SPEED_MIN
    /\ pre.playing

\* C11: pause() sets the mode to Paused and cancels the pending scheduled tick,
\* so that none is pending afterwards, while current_step, interpolation_frame,
\* the speed and the trace stay as they were; no frame is delivered while Paused.
C11_PauseCancels ==
    [][/\ lastOp'.op = "pause" =>
             /\ is_paused' /\ ~is_playing'
             /\ after_id' = None
             /\ pending' = {}
             /\ UNCHANGED <<current_step, interpolation_frame, speed,
                            animation_steps>>
             /\ emitted' = <<>>
       /\ (lastOp'.op = "tick" /\ is_paused) => emitted' = <<>>]_vars

\* C12: play() with an empty trace changes nothing, whatever the mode: the
\* controller is not playing afterwards, mode, position, speed and trace are as
\* before and no tick is scheduled; with a non-empty trace play() sets the mode
\* to Playing and schedules exactly one tick.
C12_PlayEmptyNoOp ==
    [][lastOp'.op = "play" =>
          IF Len(animation_steps) = 0
          THEN /\ UNCHANGED <<is_playing, is_paused, current_step,
                              animation_steps, speed, after_id,
                              interpolation_frame, pending, interval>>
               /\ ~is_playing'
               /\ emitted' = <<>>
          ELSE /\ is_playing' /\ ~is_paused'
               /\ pending \subseteq pending'
               /\ Cardinality(pending' \ pending) = 1
               /\ after_id' \in pending' \ pending
               /\ UNCHANGED <<current_step, animation_steps, speed,
                              interpolation_frame>>]_vars

\* C13: cleanup() from any reachable state leaves the mode Stopped, after_id
\* None and no tick of this controller pending, leaves current_step and
\* interpolation_frame untouched, and a second cleanup() changes nothing.
C13_CleanupPostcondition ==
    [][lastOp'.op = "cleanup" =>
          /\ Stopped'
          /\ after_id' = None
          /\ pending' = {}
          /\ UNCHANGED <<current_step, interpolation_frame>>
          /\ lastOp.op = "cleanup" =>
                UNCHANGED <<is_playing, is_paused, current_step,
                            animation_steps, speed, after_id,
                            interpolation_frame, pending, interval>>]_vars

\* number of entries of log that satisfy Test
CountOf(log, Test(_)) == Len(SelectSeq(log, Test))

\* C14: in a playback run each step that has started has had its step-change
\* notification (current_step + 1 and the step's description) exactly once,
\* delivered by the tick with interpolation_frame = 0 right before the step's
\* first frame event; a step not yet started has had none, and this is so even
\* when the run was paused and resumed inside a step.
C14_StepChangeOnce ==
    \A i \in 1..Len(animation_steps) :
        LET IsNotice(e) == e = StepChange(i, animation_steps[i][3])
            IsFirstFrame(e) == /\ e.kind = "frame"
                               /\ e.step = i - 1
                               /\ e.interpolation_frame = 0
            Started == \/ current_step > i - 1
                       \/ current_step = i - 1 /\ interpolation_frame > 0
        IN /\ CountOf(events, IsNotice) = (IF Started THEN 1 ELSE 0)
           /\ \A k \in 1..Len(events) :
                 IsNotice(events[k]) =>
                    /\ k < Len(events)
                    /\ IsFirstFrame(events[k + 1])
           /\ (lastOp.op = "tick" /\ \E k \in 1..Len(emitted) : IsNotice(emitted[k]))
                 => /\ emitted[1] = StepChange(i, animation_steps[i][3])
                    /\ IsFirstFrame(emitted[2])

C14_Witness ==
    /\ resumed
    /\ lastOp.op = "tick"
    /\ current_step = MaxSteps
    /\ completions = 0
    /\ CountOf(events, LAMBDA e : e.kind = "step_change") = MaxSteps

\* C15: the mode is always exactly one of Stopped, Playing, Paused: is_playing
\* and is_paused are never both true, and is_running() is true exactly when
\* the mode is Playing.
C15_ModeExclusive ==
    /\ ~(is_playing /\ is_paused)
    /\ Cardinality({m \in {"Stopped", "Playing", "Paused"} :
                       \/ m = "Stopped" /\ Stopped
                       \/ m = "Playing" /\ is_playing
                       \/ m = "Paused" /\ is_paused}) = 1
    /\ is_running <=> is_playing

C15_Witness ==
    /\ lastOp.op = "pause"
    /\ pre.playing
    /\ is_paused
    /\ ~is_playing
    /\ ~is_running

\* the frame interval of speed sp is the positive integer floor(16 / sp), and
\* no longer than that of any slower speed set_speed can leave
IntervalOf(sp) ==
    LET d == FrameInterval(sp)
    IN /\ d \in Nat /\ d > 0
       /\ d * sp <= FRAME_INTERVAL_MS * SpeedScale
       /\ (d + 1) * sp > FRAME_INTERVAL_MS * SpeedScale
       /\ \A s \in SpeedInputs :
             /\ Clamp(s) >= sp => FrameInterval(Clamp(s)) <= d
             /\ Clamp(s) <= sp => FrameInterval(Clamp(s)) >= d

\* C16: for every speed set_speed can leave, the delay handed to root.after,
\* get_frame_interval() = floor(16 / speed), is an integer above 0 (every tick
\* being scheduled gets exactly that delay), and a higher speed never gives a
\* longer delay.
C16_FrameIntervalPositive ==
    /\ [](IntervalOf(speed) /\ interval >= 0)
    /\ [][after_id' \in pending' \ pending =>
             /\ interval' = FrameInterval(speed)
             /\ interval' > 0]_vars

C16_Witness ==
    /\ lastOp.op = "tick"
    /\ is_playing
    /\ after_id \in pending
    /\ speed = ANIMATION_SPEED_MAX
    /\ interval = 5
    /\ pre.inside

\* C17: a trace with a step that is not a triple does not crash the controller:
\* set_steps stores it, and a tick that reaches the malformed step while
\* Playing lets no exception escape, moves the position on as for any step and
\* schedules the next tick, so that playback goes on to the following steps.
C17_MalformedPassThrough ==
    [][/\ lastOp'.op = "set_steps" =>
             /\ animation_steps' = lastOp'.steps
             /\ emitted' = <<>>
       /\ (/\ lastOp'.op = "tick"
           /\ is_running
           /\ current_step < Len(animation_steps)
           /\ Len(animation_steps[current_step + 1]) # 3) =>
             /\ \A k \in 1..Len(emitted') : emitted'[k].kind # "raised"
             /\ <<current_step', interpolation_frame'>> =
                   NextPosition(current_step, interpolation_frame)
             /\ after_id' \in pending']_vars

Generated == lastOp.op = "get_steps"

\* C18: for each of the five algorithms and every input array, every index in
\* the indices list of every generated step lies in [0, len(array)).
C18_IndicesInRange ==
    Generated =>
        \A k \in 1..Len(trace) :
            \A m \in 1..Len(trace[k][2]) :
                /\ 0 <= trace[k][2][m]
                /\ trace[k][2][m] < Len(current_array)

C18_Witness ==
    /\ Generated
    /\ Len(current_array) = MaxLen
    /\ current_algorithm = "Merge Sort"
    /\ \E k \in 1..Len(trace) :
          /\ trace[k][1] = "mark_sorted"
          /\ trace[k][2] = Range(0, MaxLen)
    /\ \E k \in 1..Len(trace) :
          /\ trace[k][1] = "compare"
          /\ trace[k][2][2] = MaxLen - 1

\* the indices that the mark_sorted steps of tr name, singly or inside a range
MarkedSorted(tr) ==
    {tr[k][2][m] : <<k, m>> \in
        {p \in (1..Len(tr)) \X (1..MaxLen + 1) :
            tr[p[1]][1] = "mark_sorted" /\ p[2] <= Len(tr[p[1]][2])}}

\* C19: for each of the five algorithms and every non-empty input array, by
\* the end of the generated trace every index 0..len(array)-1 has been named by
\* at least one mark_sorted step.
C19_AllMarkedSorted ==
    (Generated /\ Len(current_array) > 0) =>
        \A i \in 0..(Len(current_array) - 1) : i \in MarkedSorted(trace)

C19_Witness ==
    /\ Generated
    /\ current_algorithm = "Quick Sort"
    /\ Len(current_array) = MaxLen
    /\ MarkedSorted(SubSeq(trace, 1, Len(trace) - 1)) # MarkedSorted(trace)
    /\ MarkedSorted(trace) = 0..(MaxLen - 1)

\* C20: get_steps([]) returns an empty trace, zero steps, for every one of
\* the five algorithms.
C20_EmptyTrace ==
    (Generated /\ current_array = <<>>) => trace = <<>>

\* C20 as amended: get_steps([]) returns an empty trace for bubble, selection,
\* insertion and merge sort, and for quick sort exactly one step, the closing
\* mark_sorted with an empty index list.
C20_EmptyTraceButQuick ==
    (Generated /\ current_array = <<>>) =>
        trace = IF current_algorithm = "Quick Sort"
                THEN << <<"mark_sorted", <<>>, <<"All elements are now sorted">> >> >>
                ELSE <<>>

C20_Witness ==
    /\ Generated
    /\ current_array = <<>>
    /\ current_algorithm = "Quick Sort"
    /\ Len(trace) = 1
    /\ trace[1][2] = <<>>

Shape(tr) == [k \in 1..Len(tr) |-> <<tr[k][1], tr[k][2]>>]

\* the array A after the swap steps among the first k - 1 steps of tr
RECURSIVE ArrayBefore(_, _, _)
ArrayBefore(A, tr, k) ==
    IF k <= 1
    THEN A
    ELSE LET B == ArrayBefore(A, tr, k - 1)
         IN IF tr[k - 1][1] = "swap" /\ Len(tr[k - 1][2]) = 2
            THEN [B EXCEPT ![tr[k - 1][2][1] + 1] = B[tr[k - 1][2][2] + 1],
                           ![tr[k - 1][2][2] + 1] = B[tr[k - 1][2][1] + 1]]
            ELSE B

\* C22: bubble sort's trace for [3,1,2] is compare[0,1], swap[0,1],
\* compare[1,2], swap[1,2], mark_sorted[2], compare[0,1], mark_sorted[1],
\* mark_sorted[0], and its working copy ends as [1,2,3]; for every array a
\* swap[j,j+1] comes only right after compare[j,j+1] and only when the working
\* copy has arr[j] > arr[j+1] at that moment.
C22_BubbleTrace ==
    (Generated /\ current_algorithm = "Bubble Sort") =>
        /\ current_array = <<3, 1, 2>> =>
              /\ Shape(trace) = << <<"compare", <<0, 1>> >>, <<"swap", <<0, 1>> >>,
                                   <<"compare", <<1, 2>> >>, <<"swap", <<1, 2>> >>,
                                   <<"mark_sorted", <<2>> >>,
                                   <<"compare", <<0, 1>> >>,
                                   <<"mark_sorted", <<1>> >>,
                                   <<"mark_sorted", <<0>> >> >>
              /\ arr_copy(current_algorithm, current_array) = <<1, 2, 3>>
        /\ \A k \in 1..Len(trace) :
              trace[k][1] = "swap" =>
                 /\ k > 1
                 /\ trace[k - 1][1] = "compare"
                 /\ trace[k - 1][2] = trace[k][2]
                 /\ Len(trace[k][2]) = 2
                 /\ trace[k][2][2] = trace[k][2][1] + 1
                 /\ LET B == ArrayBefore(current_array, trace, k)
                    IN At(B, trace[k][2][1]) > At(B, trace[k][2][2])

C22_Witness ==
    /\ Generated
    /\ current_algorithm = "Bubble Sort"
    /\ current_array = <<3, 1, 2>>
    /\ Len(trace) = 8
    /\ trace[4][1] = "swap"

\* C23: merge sort's trace for [2,1] is divide[0,0,1], mark_sorted[0],
\* mark_sorted[1], merge_start[0,0,1], compare[0,1], place[0] of value 1,
\* place[1] of value 2, array_update with the snapshot [1,2], mark_sorted[0,1];
\* for every array each merge_start[left,mid,right] is followed by compare and
\* place steps only, then one array_update, then one mark_sorted spanning
\* left..right.
C23_MergeTrace ==
    (Generated /\ current_algorithm = "Merge Sort") =>
        /\ current_array = <<2, 1>> =>
              /\ Shape(trace) = << <<"divide", <<0, 0, 1>> >>,
                                   <<"mark_sorted", <<0>> >>,
                                   <<"mark_sorted", <<1>> >>,
                                   <<"merge_start", <<0, 0, 1>> >>,
                                   <<"compare", <<0, 1>> >>,
                                   <<"place", <<0>> >>,
                                   <<"place", <<1>> >>,
                                   <<"array_update", <<0, 1>> >>,
                                   <<"mark_sorted", <<0, 1>> >> >>
              /\ trace[6][3][2] = 1
              /\ trace[7][3][2] = 2
              /\ Tail(trace[8][3]) = <<1, 2>>
        /\ \A k \in 1..Len(trace) :
              trace[k][1] = "merge_start" =>
                 LET left == trace[k][2][1]
                     right == trace[k][2][3]
                 IN \E q \in (k + 1)..(Len(trace) - 1) :
                       /\ trace[q][1] = "array_update"
                       /\ trace[q + 1][1] = "mark_sorted"
                       /\ trace[q + 1][2] = [m \in 1..(right - left + 1) |-> left + m - 1]
                       /\ \A m \in (k + 1)..(q - 1) :
                             trace[m][1] \in {"compare", "place"}
                       /\ Cardinality({m \in (k + 1)..(q - 1) :
                                          trace[m][1] = "place"}) = right - left + 1
        /\ Cardinality({k \in 1..Len(trace) : trace[k][1] = "array_update"})
              = Cardinality({k \in 1..Len(trace) : trace[k][1] = "merge_start"})

C23_Witness ==
    /\ Generated
    /\ current_algorithm = "Merge Sort"
    /\ current_array = <<2, 1>>
    /\ Len(trace) = 9
    /\ trace[8][1] = "array_update"

\* C27: in every reachable controller state, whatever play, pause, stop,
\* reset, set_steps and cleanup calls and tick firings came before, at most one
\* scheduled tick is outstanding with the host scheduler, and it is the one
\* after_id identifies.
C27_SingleOutstandingTick ==
    /\ Cardinality(pending) <= 1
    /\ pending # {} => pending = {after_id}

\* C28: a tick callback that fires while the mode is Paused or Stopped delivers
\* no frame event and no notification, changes neither current_step nor
\* interpolation_frame and schedules no further tick; hence every frame event
\* other than the synthetic reset is delivered by a tick that found the
\* controller Playing.
C28_StaleTickInert ==
    [][/\ (lastOp'.op = "tick" /\ ~(is_playing /\ ~is_paused)) =>
             /\ emitted' = <<>>
             /\ events' = events
             /\ UNCHANGED <<current_step, interpolation_frame, is_playing,
                            is_paused, after_id>>
             /\ pending' \subseteq pending
             /\ Cardinality(pending') = Cardinality(pending) - 1
       /\ (\E k \in 1..Len(emitted') : emitted'[k].kind = "frame") =>
             /\ lastOp'.op = "tick"
             /\ is_playing /\ ~is_paused]_vars

\* a callback left behind by an earlier play() has just fired while Paused,
\* inside a step
C28_Witness ==
    /\ lastOp.op = "tick"
    /\ pre.paused /\ ~pre.playing
    /\ is_paused
    /\ interpolation_frame # 0
    /\ emitted = <<>>

\* the handler that ran last delivered a frame of a step with this action
FrameOf(notices, action) ==
    /\ notices # <<>>
    /\ notices[Len(notices)].kind = "frame"
    /\ notices[Len(notices)].action = action

\* C26: over the eight frames of one swap step with two indices the renderer
\* exchanges the two backing-array values exactly once, on the frame flagged
\* is_final_frame and on no other; both indices are in the swapping set and out
\* of the comparing set from the progress-0 frame up to the final frame, and
\* after the final frame neither is in the swapping set.  A swap step whose
\* index list does not have exactly two entries changes nothing.
C26_SwapOnFinalFrame ==
    [][FrameOf(emitted', "swap") =>
          LET e == emitted'[Len(emitted')]
              both == SetOf(e.indices)
          IN IF Len(e.indices) # 2
             THEN UNCHANGED canvas
             ELSE IF e.is_final_frame
             THEN /\ e.interpolation_frame = INTERPOLATION_FRAMES - 1
                  /\ array' = Swap(array, e.indices[1], e.indices[2])
                  /\ both \subseteq swapping_indices
                  /\ swapping_indices' \cap both = {}
             ELSE /\ array' = array
                  /\ both \subseteq swapping_indices'
                  /\ comparing_indices' \cap both = {}
                  /\ e.interpolation_frame # 0 => UNCHANGED canvas]_vars

\* the final frame of a swap of two compared elements has exchanged them
C26_Witness ==
    /\ FrameOf(emitted, "swap")
    /\ emitted[Len(emitted)].is_final_frame
    /\ emitted[Len(emitted)].indices = <<0, 1>>
    /\ Len(animation_steps) = 2
    /\ current_array = <<3, 1, 2>>
    /\ array = <<1, 3, 2>>
    /\ swapping_indices = {}

\* C29: when the snapshot embedded in an array_update event fails to parse, is
\* not a list or has a length different from the backing array, the renderer
\* keeps the backing array and raises nothing; when it parses to a list of the
\* same length the backing array is replaced by it, and only on the final frame
\* of the step.
C29_SnapshotDecode ==
    [][(/\ lastOp'.op = "tick"
        /\ is_playing /\ ~is_paused
        /\ current_step < Len(animation_steps)
        /\ animation_steps[current_step + 1][1] = "array_update") =>
          LET description == animation_steps[current_step + 1][3]
              new_array == ParseSnapshot(description)
              usable == /\ HasMarker(description)
                        /\ new_array.raised = "None"
                        /\ new_array.type = "list"
                        /\ Len(new_array.value) = Len(array)
          IN /\ \A k \in 1..Len(emitted') : emitted'[k].kind # "raised"
             /\ IF usable /\ interpolation_frame = INTERPOLATION_FRAMES - 1
                THEN array' = new_array.value
                ELSE array' = array]_vars

\* C30: a mark_sorted event, on whichever frame it is delivered, adds every
\* given index to the renderer's sorted set and removes each of them from the
\* comparing and swapping sets, leaving the backing array and the classification
\* of all other indices unchanged; a sorted index stays in the sorted set until
\* a reset event or set_array.
C30_MarkSortedSticky ==
    [][/\ FrameOf(emitted', "mark_sorted") =>
             LET given == SetOf(emitted'[Len(emitted')].indices)
             IN /\ sorted_indices' = sorted_indices \cup given
                /\ comparing_indices' = comparing_indices \ given
                /\ swapping_indices' = swapping_indices \ given
                /\ array' = array
       /\ sorted_indices \subseteq sorted_indices'
          \/ \E k \in 1..Len(emitted') : emitted'[k].kind = "reset"
          \/ lastOp'.op = "on_reset"]_vars

\* a mark_sorted frame took index 1 out of a swap in progress and left index 0
\* in it
C30_Witness ==
    /\ FrameOf(emitted, "mark_sorted")
    /\ ~emitted[Len(emitted)].is_final_frame
    /\ sorted_indices = {1}
    /\ swapping_indices = {0}

\* number of entries of a equal to v
Occurrences(a, v) == Cardinality({k \in 1..Len(a) : a[k] = v})

\* s is a sorted ascending
IsSortOf(s, a) ==
    /\ Len(s) = Len(a)
    /\ \A k \in 1..(Len(s) - 1) : s[k] <= s[k + 1]
    /\ \A k \in 1..Len(a) : Occurrences(s, a[k]) = Occurrences(a, a[k])

\* the handler that ran last sent the completion notification
CompletionFired ==
    \E k \in 1..Len(emitted) : emitted[k].kind = "completion"

\* C25: for each of the five algorithms and every input array A, when the
\* renderer's array is set to A and the whole trace get_steps(A) is played
\* uninterrupted from step 0 to completion, the renderer's backing array at
\* completion is A sorted ascending, which is also the generator's final
\* working copy.
C25_PlayedTraceSorts ==
    CompletionFired =>
        /\ IsSortOf(array, current_array)
        /\ array = arr_copy(current_algorithm, current_array)

\* a run whose shifts reach the renderer only through snapshots has completed
C25_Witness ==
    /\ CompletionFired
    /\ current_array = <<3, 1, 2>>
    /\ current_algorithm = "Insertion Sort"
    /\ array = <<1, 2, 3>>
    /\ sorted_indices = {0, 1, 2}

\* C24: for every sequence of play and pause commands of the user interface
\* interleaved with ticks, without reset and without a change of array,
\* whenever the completion notification fires the renderer's backing array is
\* the ascending sort of the application's current array.
C24_CompletionShowsSorted ==
    CompletionFired => IsSortOf(array, current_array)

\* C31: a reset event empties the renderer's comparing, swapping and sorted
\* sets, whatever they held, and does not modify the values of the backing
\* array (on_reset follows the event with set_array, which is what puts the
\* application's array back).
C31_ResetClearsSets ==
    [][(\E k \in 1..Len(emitted') : emitted'[k].kind = "reset") =>
          /\ comparing_indices' = {}
          /\ swapping_indices' = {}
          /\ sorted_indices' = {}
          /\ lastOp'.op = "reset" => array' = array
          /\ lastOp'.op = "on_reset" => array' = current_array]_vars

\* reset() arrived inside the second step of a trace, whose compare step had
\* left indices highlighted, on an array that a swap had changed before
C31_Witness ==
    /\ lastOp.op = "reset"
    /\ pre.inside
    /\ Len(animation_steps) = 2
    /\ array # current_array
    /\ comparing_indices = {} /\ swapping_indices = {} /\ sorted_indices = {}

\* the mark_sorted steps a bubble pass ends with, as opposed to the ones that
\* follow an early exit
IsBoundaryMark(st) ==
    st[1] = "mark_sorted" /\ st[3][1] = "Element {} is now in correct position"

\* the steps of the pass that ends at position p of tr: those after the
\* previous mark_sorted step
PassBefore(tr, p) ==
    LET marks == {q \in 1..(p - 1) : tr[q][1] = "mark_sorted"}
        from == IF marks = {} THEN 1
                ELSE (CHOOSE q \in marks : \A r \in marks : r <= q) + 1
    IN [k \in 1..(p - from) |-> tr[from + k - 1]]

\* C32: bubble sort's early exit: when a pass makes no swap, the boundary
\* mark_sorted of that pass is followed by mark_sorted[k] for every remaining
\* index k = 0..boundary-1 in increasing order and the trace ends there, with
\* no further compare; a pass that did swap is followed by the next pass.
\* Consequently each index is named by exactly one mark_sorted step.
C32_BubbleEarlyExit ==
    (Generated /\ current_algorithm = "Bubble Sort") =>
        /\ \A p \in 1..Len(trace) :
              IsBoundaryMark(trace[p]) =>
                 LET boundary == trace[p][2][1]
                     pass == PassBefore(trace, p)
                 IN IF \A k \in 1..Len(pass) : pass[k][1] = "compare"
                    THEN /\ Len(trace) = p + boundary
                         /\ \A k \in 0..(boundary - 1) :
                               /\ trace[p + 1 + k][1] = "mark_sorted"
                               /\ trace[p + 1 + k][2] = <<k>>
                               /\ ~IsBoundaryMark(trace[p + 1 + k])
                    ELSE /\ p < Len(trace)
                         /\ trace[p + 1][1] = "compare"
                            \/ IsBoundaryMark(trace[p + 1])
        /\ \A idx \in 0..(Len(current_array) - 1) :
              Cardinality({p \in 1..Len(trace) :
                              /\ trace[p][1] = "mark_sorted"
                              /\ idx \in SetOf(trace[p][2])}) = 1

\* a first pass that swaps, then a pass without swap that ends the generation
\* with two indices left
C32_Witness ==
    /\ Generated
    /\ current_algorithm = "Bubble Sort"
    /\ current_array = <<2, 1, 3, 3>>
    /\ Len(trace) = 10
    /\ trace[10][2] = <<1>>

\* Reading a Lomuto scan off a trace: from position p the steps must be, for
\* each candidate j up to high - 1, compare[j, high] followed by swap[i, j]
\* exactly when the candidate is <= the pivot and the incremented boundary i
\* differs from j.  A is the input array; the candidate and the pivot are the
\* values the swaps so far have put at j and high.  The result is the position
\* after the scan and the boundary, or ok = FALSE.
RECURSIVE ScanEnd(_, _, _, _, _, _)
ScanEnd(A, tr, p, i, j, high) ==
    IF j >= high
    THEN [ok |-> TRUE, p |-> p, i |-> i]
    ELSE IF p > Len(tr) \/ tr[p][1] # "compare" \/ tr[p][2] # <<j, high>>
    THEN [ok |-> FALSE, p |-> p, i |-> i]
    ELSE LET B == ArrayBefore(A, tr, p)
         IN IF At(B, j) <= At(B, high)
            THEN IF i + 1 # j
                 THEN IF /\ p + 1 <= Len(tr)
                         /\ tr[p + 1][1] = "swap"
                         /\ tr[p + 1][2] = <<i + 1, j>>
                      THEN ScanEnd(A, tr, p + 2, i + 1, j + 1, high)
                      ELSE [ok |-> FALSE, p |-> p, i |-> i]
                 ELSE ScanEnd(A, tr, p + 1, i + 1, j + 1, high)
            ELSE ScanEnd(A, tr, p + 1, i, j + 1, high)

\* The partition that starts at position p of tr with highlight_pivot[high]:
\* the scan from the first compared candidate, the pivot-placing
\* swap[i+1, high] exactly when i + 1 # high, and mark_sorted[i+1].  The result
\* is the position after the partition, or ok = FALSE.
PartitionAt(A, tr, p) ==
    LET high == tr[p][2][1]
        low == tr[p + 1][2][1]
        s == ScanEnd(A, tr, p + 1, low - 1, low, high)
        q == IF s.i + 1 # high THEN s.p + 1 ELSE s.p
    IN [ok |-> /\ tr[p][2] = <<high>>
               /\ tr[p][3] = <<"Choosing {} as pivot",
                               At(ArrayBefore(A, tr, p), high)>>
               /\ p + 1 <= Len(tr)
               /\ tr[p + 1][1] = "compare"
               /\ low < high
               /\ s.ok
               /\ q <= Len(tr)
               /\ s.i + 1 # high =>
                     /\ tr[s.p][1] = "swap"
                     /\ tr[s.p][2] = <<s.i + 1, high>>
               /\ tr[q][1] = "mark_sorted"
               /\ tr[q][2] = <<s.i + 1>>,
        next |-> q + 1]

\* C33: quick sort with the last element of the subrange as pivot: each
\* partition starts with one highlight_pivot[high]; during the scan a
\* swap[i, j] is emitted iff the candidate is <= the pivot and the incremented
\* boundary i differs from j, so no swap has two equal indices; one
\* pivot-placing swap[i+1, high] is emitted iff i + 1 # high;
\* mark_sorted[pivot position] follows each partition; and the last step of
\* every trace is one mark_sorted naming all indices 0..n-1.
C33_QuickSortPartitions ==
    (Generated /\ current_algorithm = "Quick Sort") =>
        LET n == Len(current_array)
            last == Len(trace)
        IN /\ last >= 1
           /\ trace[last][1] = "mark_sorted"
           /\ trace[last][2] = [k \in 1..n |-> k - 1]
           /\ last > 1 => trace[1][1] = "highlight_pivot"
           /\ \A p \in 1..(last - 1) :
                 /\ trace[p][1] = "highlight_pivot" =>
                       LET part == PartitionAt(current_array, trace, p)
                       IN /\ part.ok
                          /\ part.next = last
                             \/ trace[part.next][1] = "highlight_pivot"
                 /\ trace[p][1] = "swap" => trace[p][2][1] # trace[p][2][2]
                 /\ trace[p][1] \in {"highlight_pivot", "compare", "swap",
                                     "mark_sorted"}

\* a trace with a scan swap, a scan step without swap, a pivot-placing swap
\* and a partition without one
C33_Witness ==
    /\ Generated
    /\ current_algorithm = "Quick Sort"
    /\ current_array = <<3, 1, 2, 3>>
    /\ \E p \in 1..Len(trace) :
          trace[p][1] = "swap" /\ trace[p][3][1] = "Swapping {} and {}"
    /\ \E p \in 1..Len(trace) :
          trace[p][1] = "swap"
          /\ trace[p][3][1] = "Placing pivot {} in correct position"

\* Reading a selection scan off a trace: from position p the steps must be,
\* for each j up to n - 1, compare[min_idx, j] followed by highlight_min[j]
\* exactly when the value at j is strictly smaller than the one at min_idx.
\* The result is the position after the scan and the minimum's index.
RECURSIVE MinScanEnd(_, _, _, _, _)
MinScanEnd(A, tr, p, min_idx, j) ==
    IF j >= Len(A)
    THEN [ok |-> TRUE, p |-> p, min_idx |-> min_idx]
    ELSE IF p > Len(tr) \/ tr[p][1] # "compare" \/ tr[p][2] # <<min_idx, j>>
    THEN [ok |-> FALSE, p |-> p, min_idx |-> min_idx]
    ELSE LET B == ArrayBefore(A, tr, p)
         IN IF At(B, j) < At(B, min_idx)
            THEN IF /\ p + 1 <= Len(tr)
                    /\ tr[p + 1][1] = "highlight_min"
                    /\ tr[p + 1][2] = <<j>>
                 THEN MinScanEnd(A, tr, p + 2, j, j + 1)
                 ELSE [ok |-> FALSE, p |-> p, min_idx |-> min_idx]
            ELSE MinScanEnd(A, tr, p + 1, min_idx, j + 1)

\* From position p the trace is the rounds for positions i..n-1 and nothing
\* more: highlight_current[i], the scan, swap[i, min_idx] exactly when
\* min_idx # i, mark_sorted[i].
RECURSIVE SelectionRounds(_, _, _, _)
SelectionRounds(A, tr, p, i) ==
    IF i >= Len(A)
    THEN p = Len(tr) + 1
    ELSE /\ p <= Len(tr)
         /\ tr[p][1] = "highlight_current"
         /\ tr[p][2] = <<i>>
         /\ LET s == MinScanEnd(A, tr, p + 1, i, i + 1)
                q == IF s.min_idx # i THEN s.p + 1 ELSE s.p
            IN /\ s.ok
               /\ q <= Len(tr)
               /\ s.min_idx # i =>
                     tr[s.p][1] = "swap" /\ tr[s.p][2] = <<i, s.min_idx>>
               /\ tr[q][1] = "mark_sorted"
               /\ tr[q][2] = <<i>>
               /\ SelectionRounds(A, tr, q + 1, i + 1)

\* number of steps of tr with this action
StepsOf(tr, action) == Cardinality({p \in 1..Len(tr) : tr[p][1] = action})

\* C34: selection sort's trace holds, for each position i = 0..n-1 in order,
\* one highlight_current[i], one compare[min_idx, j] for every j = i+1..n-1 in
\* increasing j, each followed by highlight_min[j] exactly when arr[j] is
\* strictly smaller than the current minimum, exactly one swap[i, min_idx] iff
\* min_idx # i, and one mark_sorted[i]; hence n(n-1)/2 compare steps and at
\* most n-1 swap steps.
C34_SelectionRounds ==
    (Generated /\ current_algorithm = "Selection Sort") =>
        LET n == Len(current_array)
        IN /\ SelectionRounds(current_array, trace, 1, 0)
           /\ 2 * StepsOf(trace, "compare") = n * (n - 1)
           /\ StepsOf(trace, "swap") <= Max(n - 1, 0)
           /\ StepsOf(trace, "highlight_current") = n
           /\ StepsOf(trace, "mark_sorted") = n

\* a trace with rounds that swap, a round that does not, and a new minimum
\* found twice in one scan
C34_Witness ==
    /\ Generated
    /\ current_algorithm = "Selection Sort"
    /\ current_array = <<3, 2, 1, 3>>
    /\ StepsOf(trace, "swap") = 1
    /\ StepsOf(trace, "highlight_min") = 2
    /\ StepsOf(trace, "compare") = 6

\* Reading the leftward scan of an insertion round off a trace: while the
\* value at j in the working array B is greater than key, the steps at p and
\* p + 1 must be compare[j, i] and shift[j, j+1].  The result is the position
\* after the scan, where the scan stopped, and B with the shifts applied.
RECURSIVE ShiftEnd(_, _, _, _, _, _)
ShiftEnd(B, tr, p, key, i, j) ==
    IF j >= 0 /\ At(B, j) > key
    THEN IF /\ p + 1 <= Len(tr)
            /\ tr[p][1] = "compare" /\ tr[p][2] = <<j, i>>
            /\ tr[p + 1][1] = "shift" /\ tr[p + 1][2] = <<j, j + 1>>
         THEN ShiftEnd([B EXCEPT ![j + 2] = At(B, j)], tr, p + 2, key, i, j - 1)
         ELSE [ok |-> FALSE, p |-> p, j |-> j, B |-> B]
    ELSE [ok |-> TRUE, p |-> p, j |-> j, B |-> B]

\* From position p the trace is the rounds for i..n-1 and nothing more:
\* highlight_current[i], the scan, array_update and insert[j+1] exactly when
\* something was shifted, then mark_sorted[0] .. mark_sorted[i].
RECURSIVE InsertionRounds(_, _, _, _)
InsertionRounds(B, tr, p, i) ==
    IF i >= Len(B)
    THEN p = Len(tr) + 1
    ELSE /\ p <= Len(tr)
         /\ tr[p][1] = "highlight_current"
         /\ tr[p][2] = <<i>>
         /\ LET s == ShiftEnd(B, tr, p + 1, At(B, i), i, i - 1)
                shifted == s.j + 1 # i
                placed == IF shifted
                          THEN [s.B EXCEPT ![s.j + 2] = At(B, i)]
                          ELSE s.B
                q == IF shifted THEN s.p + 2 ELSE s.p
            IN /\ s.ok
               /\ q + i <= Len(tr)
               /\ shifted =>
                     /\ tr[s.p][1] = "array_update"
                     /\ tr[s.p][3] = <<"Array updated: {}">> \o placed
                     /\ tr[s.p + 1][1] = "insert"
                     /\ tr[s.p + 1][2] = <<s.j + 1>>
               /\ \A k \in 0..i :
                     tr[q + k][1] = "mark_sorted" /\ tr[q + k][2] = <<k>>
               /\ InsertionRounds(placed, tr, q + i + 1, i + 1)

\* the sum of i + 1 over i = 1..n-1
RECURSIVE SumOfRounds(_)
SumOfRounds(n) == IF n <= 1 THEN 0 ELSE n + SumOfRounds(n - 1)

\* C35: insertion sort's trace starts with mark_sorted[0]; for each
\* i = 1..n-1 it holds highlight_current[i], then compare[j, i] immediately
\* followed by shift[j, j+1] once per leftward step, with no compare for the
\* comparison that ends the scan, then array_update immediately followed by
\* insert[j+1] iff at least one shift occurred in that iteration, then
\* mark_sorted[0], ..., mark_sorted[i] in increasing order; so the trace holds
\* 1 + the sum over i of (i+1) mark_sorted steps.
C35_InsertionRounds ==
    (Generated /\ current_algorithm = "Insertion Sort") =>
        /\ Len(trace) >= 1
        /\ trace[1][1] = "mark_sorted"
        /\ trace[1][2] = <<0>>
        /\ InsertionRounds(current_array, trace, 2, 1)
        /\ StepsOf(trace, "mark_sorted") = 1 + SumOfRounds(Len(current_array))
        /\ StepsOf(trace, "compare") = StepsOf(trace, "shift")
        /\ StepsOf(trace, "array_update") = StepsOf(trace, "insert")

\* C35, amended: the above holds for every array that has a first element;
\* for the empty array the trace is empty, without the initial mark_sorted[0].
C35_InsertionRoundsNonEmpty ==
    (Generated /\ current_algorithm = "Insertion Sort") =>
        IF current_array = <<>>
        THEN trace = <<>>
        ELSE /\ trace[1][1] = "mark_sorted"
             /\ trace[1][2] = <<0>>
             /\ InsertionRounds(current_array, trace, 2, 1)
             /\ StepsOf(trace, "mark_sorted")
                   = 1 + SumOfRounds(Len(current_array))
             /\ StepsOf(trace, "compare") = StepsOf(trace, "shift")
             /\ StepsOf(trace, "array_update") = StepsOf(trace, "insert")

\* a trace with a round that shifts twice, a round that shifts once and a
\* round that shifts nothing
C35_Witness ==
    /\ Generated
    /\ current_algorithm = "Insertion Sort"
    /\ current_array = <<2, 3, 1, 2>>
    /\ StepsOf(trace, "shift") = 3
    /\ StepsOf(trace, "array_update") = 2
    /\ StepsOf(trace, "mark_sorted") = 10

\* the positions of the array_update steps of tr
Updates(tr) == {p \in 1..Len(tr) : tr[p][1] = "array_update"}

\* a keeps equal values in the order of the positions they came from, and is
\* ascending by value
StablySorted(a) ==
    \A p, q \in 1..Len(a) :
        p < q => \/ Value(a[p]) < Value(a[q])
                 \/ Value(a[p]) = Value(a[q]) /\ Identity(a[p]) < Identity(a[q])

\* C36: merge sort is stable: in every merge, when the heads of the left and
\* right halves are equal the left-half value is placed first, so in the
\* generator's final working copy, and in the last array_update snapshot,
\* elements with equal values keep their relative order from the input.
C36_MergeStable ==
    Generated =>
        /\ \A p \in 1..(Len(trace) - 1) :
              (/\ trace[p][1] = "compare"
               /\ Value(trace[p][3][2]) = Value(trace[p][3][3])) =>
                  /\ trace[p + 1][1] = "place"
                  /\ trace[p + 1][3][2] = trace[p][3][2]
        /\ StablySorted(arr_copy("Merge Sort", current_array))
        /\ \A p \in Updates(trace) :
              (\A q \in Updates(trace) : q <= p) =>
                  trace[p][3] = <<"Array updated: {}">>
                                \o arr_copy("Merge Sort", current_array)

\* a merge met two equal heads and the array has its equal values in input
\* order, behind a smaller value that started to their right
C36_Witness ==
    /\ Generated
    /\ Len(current_array) = 3
    /\ Value(current_array[1]) = 2
    /\ Value(current_array[2]) = 2
    /\ Value(current_array[3]) = 1
    /\ arr_copy("Merge Sort", current_array)
          = <<current_array[3], current_array[1], current_array[2]>>
    /\ \E p \in 1..Len(trace) :
          /\ trace[p][1] = "compare"
          /\ Value(trace[p][3][2]) = Value(trace[p][3][3])

\* C37: in the trace any of the five algorithms generates for any input, no
\* swap step names an index that an earlier mark_sorted step of the same trace
\* has named, so a bar the renderer shows as sorted is never moved by a later
\* swap while the trace is played.
C37_NoSwapOfSorted ==
    /\ \A p, q \in 1..Len(trace) :
          (p < q /\ trace[p][1] = "mark_sorted" /\ trace[q][1] = "swap") =>
              SetOf(trace[p][2]) \cap SetOf(trace[q][2]) = {}
    /\ FrameOf(emitted, "swap") =>
          SetOf(emitted[Len(emitted)].indices) \cap sorted_indices = {}

\* the renderer is swapping two bars of a quick sort trace while another bar,
\* a pivot placed earlier, is shown as sorted
C37_Witness ==
    /\ current_algorithm = "Quick Sort"
    /\ FrameOf(emitted, "swap")
    /\ sorted_indices # {}
    /\ array # current_array

\* the working copy of the generator before step k of tr, for input A: what
\* the first k - 1 steps say was written.  A swap exchanges two positions, a
\* place and an insert write the value they name at the position they name,
\* a shift copies a value one position to the right.
RECURSIVE CopyBefore(_, _, _)
CopyBefore(A, tr, k) ==
    IF k <= 1
    THEN A
    ELSE LET B == CopyBefore(A, tr, k - 1)
             st == tr[k - 1]
         IN CASE st[1] = "swap" -> Swap(B, st[2][1], st[2][2])
              [] st[1] \in {"place", "insert"} ->
                    [B EXCEPT ![st[2][1] + 1] = st[3][2]]
              [] st[1] = "shift" -> [B EXCEPT ![st[2][2] + 1] = At(B, st[2][1])]
              [] OTHER -> B

\* a and b hold the same values, each as often
IsPermutation(a, b) ==
    /\ Len(a) = Len(b)
    /\ \A k \in 1..Len(a) : Occurrences(a, a[k]) = Occurrences(b, a[k])

\* C38: every array_update step the insertion and merge generators emit
\* carries a snapshot of the input's length that is a permutation of the input
\* and equal to the generator's working copy at that moment (insertion sort
\* announces the insert that completes it in the next step); so when the trace
\* is played against the same array the renderer never rejects a snapshot and
\* takes it over on the final frame of the step.
C38_SnapshotsFit ==
    /\ \A p \in Updates(trace) :
          LET snapshot == Tail(trace[p][3])
              inserting == p < Len(trace) /\ trace[p + 1][1] = "insert"
          IN /\ current_algorithm \in {"Insertion Sort", "Merge Sort"}
             /\ trace[p][3][1] = "Array updated: {}"
             /\ Len(snapshot) = Len(current_array)
             /\ IsPermutation(snapshot, current_array)
             /\ snapshot = CopyBefore(current_array, trace,
                                      IF inserting THEN p + 2 ELSE p)
    /\ (/\ FrameOf(emitted, "array_update")
        /\ emitted[Len(emitted)].is_final_frame) =>
           array = Tail(emitted[Len(emitted)].description)

\* the renderer has just taken over the snapshot of an insertion that moved
\* the last element to the front
C38_Witness ==
    /\ FrameOf(emitted, "array_update")
    /\ emitted[Len(emitted)].is_final_frame
    /\ current_algorithm = "Insertion Sort"
    /\ current_array = <<2, 3, 1>>
    /\ array = <<1, 2, 3>>

\* C39: the tick that completes the animation leaves the controller Stopped at
\* current_step = len(trace) with interpolation_frame 0, so get_progress() is
\* (total, total); a play() after that, with no set_steps or stop in between,
\* starts from that position and delivers nothing, and the first tick after
\* it delivers no frame event but the final step-change and the completion
\* notification again.
C39_ReplayAfterCompletion ==
    [][LET total == Len(animation_steps)
           completed == Stopped /\ completions > 0 /\ total > 0
       IN /\ completions' > completions =>
                /\ Stopped'
                /\ current_step' = total
                /\ interpolation_frame' = 0
                /\ get_progress' = <<total, total>>
          /\ (completed /\ lastOp'.op = "play") =>
                /\ emitted' = <<>>
                /\ is_playing' /\ ~is_paused'
                /\ get_progress' = <<total, total>>
                /\ interpolation_frame' = 0
          /\ (/\ lastOp.op = "play" /\ is_playing /\ completions > 0
              /\ lastOp'.op = "tick") =>
                /\ emitted' = <<StepChange(total, "Animation completed"),
                                Completion>>
                /\ completions' = completions + 1
                /\ Stopped']_vars

\* a completed two-step animation was played again and its first tick has
\* announced the completion a second time
C39_Witness ==
    /\ completions = 2
    /\ Len(animation_steps) = 2
    /\ lastOp.op = "tick"
    /\ CompletionFired
    /\ Len(Frames(events)) = INTERPOLATION_FRAMES * 2
    /\ Stopped

\* a frame during which a listener called stop() or reset() has just run to
\* its end
StoppedInside ==
    /\ lastOp.op \in Reentrant
    /\ Len(emitted) > 0
    /\ \E k \in 1..Len(emitted) : emitted[k].kind \in {"frame", "step_change"}

\* C40: when stop() or reset() is called from inside the render callback or
\* the step-change callback while a tick executes, then once that tick has run
\* to completion the controller satisfies the stop postcondition: current_step
\* 0, interpolation_frame 0, mode Stopped and no tick pending.
C40_StopInsideTick ==
    StoppedInside =>
        /\ current_step = 0
        /\ interpolation_frame = 0
        /\ Stopped
        /\ pending = {}
        /\ after_id = None

====
